---- MODULE Spec2Model ----
(***************************************************************************)
(* Model of the leaderboard route (src/app/api/leaderboard/route.ts), of   *)
(* the export scripts and of the page (src/app/page.tsx): the recursive    *)
(* log fetcher, the in-memory cache in front of it, the aggregation of Buy *)
(* and Claim logs, the bounded pool of contract reads, and the wallet,     *)
(* PoH and buy handlers of the page.                                       *)
(***************************************************************************)
EXTENDS Integers, Sequences, FiniteSets, TLC

VARIABLES
    \* ---- fetchLogsRecursive (route.ts 45-85) ----
    chainLogs,    \* block -> number of Buy logs the contract emitted in it
    capacity,     \* the provider answers -32005 above this many matching logs
    capacityErr,  \* the error object this provider raises for it
    rootRange,    \* <<fromBlock, toBlock>> of the outermost call
    calls,        \* range -> the fetchLogsRecursive call made for that range
    requests,     \* range -> number of getLogs requests issued for it
    answered,     \* range -> the error getLogs raised for it (NoError: logs)
    faults,       \* number of non-capacity failures the provider has raised
    \* ---- the cache and GET (route.ts 38-40, 138-193) ----
    cachedRows,   \* let cachedRows: LeaderboardRow[] | null
    cachedAt,     \* let cachedAt
    now,          \* Date.now()
    head,         \* the chain's latest block number
    req,          \* request -> where its GET stands
    lastResp,     \* the response returned last
    \* ---- the pool of contract reads (part_000 103-171, part_002 117-203) ----
    variant,      \* which script runs: "part_000" or "part_002"
    buyerList,    \* number of discovered wallets; wallet i is buyerList[i]
    failing,      \* the wallets whose contract reads reject
    hung,         \* the contract reads that are never answered
    CONCURRENCY,  \* number of workers started
    index,        \* let index = 0: the next wallet to hand out
    workers,      \* worker -> what it awaits
    inflight,     \* the contract reads not answered yet, <<wallet, function>>
    resolved,     \* the reads answered with a value while their worker waits
    results,      \* const rows (part_000) / results (part_002): the rows pushed
    phase,        \* "init", "running" or "written"
    csv,          \* the rows written to the CSV file
    \* ---- the aggregation of logs (export-buys-and-claims.cjs 41-186,
    \*      part_001 40-113, export-wallet-stats.ts 57-168) ----
    script,       \* which script runs: "cjs", "part_001" or "wallet_stats"
    evlog,        \* the logs of the contract, in chain order, one per block
    chunk,        \* BLOCK_CHUNK
    latestBlock,  \* what provider.getBlockNumber() returns
    fromBlock,    \* the loop variable of the scan
    queried,      \* the getLogs requests issued so far
    scanFaults,   \* number of getLogs requests the provider has rejected
    pass,         \* "start", "buy", "claim", "both", "done", "aborted", "failed"
    pos,          \* how many logs of the current window have been processed
    buyCounts,          \* cjs: Map wallet -> number
    claimTxCounts,      \* cjs: Map wallet -> number
    buysClaimedCounts,  \* cjs: Map wallet -> number (a double)
    tokensClaimed,      \* cjs: Map wallet -> BigNumber
    stats,        \* part_001: Map wallet -> {buys, claimedBuys};
                  \* export-wallet-stats.ts: Map wallet -> {buys, claims}
    lines,        \* the rows written to the CSV file
    \* ---- the page (src/app/page.tsx 58-1040) ----
    page          \* the state of the Home component, of the wallet it talks to
                  \* and of the calls it has in progress (NoPage: not rendered)

fetchVars == <<chainLogs, capacity, capacityErr, rootRange, calls, requests, answered, faults>>
cacheVars == <<cachedRows, cachedAt, now, head, req, lastResp>>
poolVars == <<variant, buyerList, failing, hung, CONCURRENCY, index, workers, inflight,
              resolved, results, phase, csv>>
foldVars == <<script, evlog, chunk, latestBlock, fromBlock, queried, scanFaults, pass, pos,
              buyCounts, claimTxCounts, buysClaimedCounts, tokensClaimed, stats, lines>>
pageVars == <<page>>
vars == <<fetchVars, cacheVars, poolVars, foldVars, pageVars>>

\* ------------------------------------------------------------------ bounds
MaxBlock == 2
MaxLogsPerBlock == 2
MaxCapacity == 2
MaxFaults == 1
MaxRequests == 2
MaxEpochs == 1
MaxWallets == 3
MaxPool == 3
MaxLogs == 3
MaxLimit == 3

\* const LEADERBOARD_FROM_BLOCK = Number(process.env.LEADERBOARD_FROM_BLOCK ?? 26505044)
LEADERBOARD_FROM_BLOCK == 26505044
\* const LEADERBOARD_MAX_ENTRIES = Number(process.env.LEADERBOARD_MAX_ENTRIES ?? 500)
LEADERBOARD_MAX_ENTRIES == 500
\* const CACHE_TTL_MS = 30_000
CACHE_TTL_MS == 30000

Blocks == LEADERBOARD_FROM_BLOCK..(LEADERBOARD_FROM_BLOCK + MaxBlock)
NoRange == <<>>

\* ------------------------------------------------------- provider errors
\* An error object as the catch clause reads it: err.code and err.error.code.
Undefined == "undefined"
CAPACITY_CODE == "-32005"
CapacityErrors ==
    { [code |-> CAPACITY_CODE, inner |-> Undefined],
      [code |-> Undefined, inner |-> CAPACITY_CODE] }
OtherErrors ==
    { [code |-> "-32000", inner |-> Undefined],
      [code |-> "SERVER_ERROR", inner |-> CAPACITY_CODE],
      [code |-> Undefined, inner |-> Undefined] }
NoError == [code |-> "none", inner |-> "none"]

\* const code = err?.code ?? err?.error?.code;
ErrCode(err) == IF err.code # Undefined THEN err.code ELSE err.inner

\* ------------------------------------------------------------ the chain
Wallets == <<"0xAa", "0xBb">>

\* A 32-byte topic holding an address: its length as a "0x" string, the
\* account it names and the casing of its hex digits.
AddressTopic(acct, form) == [len |-> 66, acct |-> acct, form |-> form]

BUY_TOPIC == "Buy(address,uint64,uint32)"

\* The i-th Buy log of block b, as the provider returns it.
BuyLogAt(b, i) ==
    [blockNumber |-> b, logIndex |-> i,
     topics |-> <<BUY_TOPIC, AddressTopic(Wallets[((b + i) % Len(Wallets)) + 1], "lower")>>]

\* The logs of one block, in emission order.
BlockLogs(b) == [i \in 1..chainLogs[b] |-> BuyLogAt(b, i)]

RECURSIVE LogsIn(_, _)
\* What an unlimited getLogs over [from, to] returns.
LogsIn(from, to) ==
    IF from > to THEN <<>>
    ELSE LogsIn(from, to - 1) \o BlockLogs(to)

\* Math.floor((fromBlock + toBlock) / 2)
Mid(from, to) == (from + to) \div 2

\* ------------------------------------------------- fetchLogsRecursive
NewCall(parent) ==
    [st |-> "inflight", res |-> <<>>, err |-> NoError, parent |-> parent]

Settled(c) == c.st \in {"ok", "err"}

\* Mutant of LeftOf: the left half starts one block too far.
LeftOfSkipsBlock(r) == <<r[1] + 1, Mid(r[1], r[2])>>

LeftOf(r) == <<r[1], Mid(r[1], r[2])>>

\* Mutant of RightOf: the right half starts one block too far.
RightOfSkipsBlock(r) == <<Mid(r[1], r[2]) + 2, r[2]>>

RightOf(r) == <<Mid(r[1], r[2]) + 1, r[2]>>

RECURSIVE Propagate(_, _)
\* Promise.all of the parent and the parent's own settlement, up the chain of
\* awaiting callers: a rejection rejects the parent at once, a result resolves
\* it once its sibling has a result too.
Propagate(cs, r) ==
    LET p == cs[r].parent IN
    IF p = NoRange THEN cs
    ELSE IF cs[p].st # "split" THEN cs
    ELSE IF cs[r].st = "err"
      THEN Propagate([cs EXCEPT ![p].st = "err", ![p].err = cs[r].err], p)
    ELSE IF cs[r].st = "ok" /\ cs[LeftOf(p)].st = "ok" /\ cs[RightOf(p)].st = "ok"
      THEN Propagate([cs EXCEPT ![p].st = "ok",
                                ![p].res = cs[LeftOf(p)].res \o cs[RightOf(p)].res], p)
    ELSE cs

\* Mutant of Invoke: the empty-range test is gone, every call awaits getLogs.
InvokeAlwaysAsks(r, parent) == NewCall(parent)

\* The synchronous head of fetchLogsRecursive(provider, from, to): an empty
\* range returns [] at once, any other range issues its getLogs request.
Invoke(r, parent) ==
    IF r[1] > r[2] THEN [NewCall(parent) EXCEPT !.st = "ok"]
    ELSE NewCall(parent)

Issued(r) == IF r[1] > r[2] THEN 0 ELSE 1

CallFetch ==
    /\ calls = <<>>
    /\ calls' = (rootRange :> Invoke(rootRange, NoRange))
    /\ requests' = (rootRange :> Issued(rootRange))
    /\ UNCHANGED <<chainLogs, capacity, capacityErr, rootRange, answered, faults>>
    /\ UNCHANGED <<cacheVars, poolVars, foldVars, pageVars>>

\* getLogs resolves: return logs.
GetLogsOk(r) ==
    /\ r \in DOMAIN calls
    /\ calls[r].st = "inflight"
    /\ Len(LogsIn(r[1], r[2])) <= capacity
    /\ calls' = Propagate([calls EXCEPT ![r].st = "ok",
                                        ![r].res = LogsIn(r[1], r[2])], r)
    /\ answered' = (r :> NoError) @@ answered
    /\ UNCHANGED <<chainLogs, capacity, capacityErr, rootRange, requests, faults>>
    /\ UNCHANGED <<cacheVars, poolVars, foldVars, pageVars>>

\* Mutant of ShouldSplit: a range of one block is split as well.
ShouldSplitAnyWidth(r, err) == ErrCode(err) = CAPACITY_CODE

\* Mutant of ShouldSplit: the code compared against has lost its sign.
ShouldSplitWrongCode(r, err) == ErrCode(err) = "32005" /\ r[1] < r[2]

\* if (code === -32005 && fromBlock < toBlock)
ShouldSplit(r, err) == ErrCode(err) = CAPACITY_CODE /\ r[1] < r[2]

\* Mutant of Split: the left half is the range itself.
SplitKeepsRange(cs, r) ==
    LET l == r
        rr == RightOf(r)
        c1 == (l :> Invoke(l, r)) @@ (rr :> Invoke(rr, r))
                @@ [cs EXCEPT ![r].st = "split"]
    IN Propagate(Propagate(c1, l), rr)

\* The two recursive calls of the split and the await of their Promise.all.
Split(cs, r) ==
    LET l == LeftOf(r)
        rr == RightOf(r)
        c1 == (l :> Invoke(l, r)) @@ (rr :> Invoke(rr, r))
                @@ [cs EXCEPT ![r].st = "split"]
    IN Propagate(Propagate(c1, l), rr)

\* Mutant of Catch: a failure that is not split is retried instead of thrown.
CatchRetries(r, err) ==
    IF ShouldSplit(r, err)
      THEN /\ calls' = Split(calls, r)
           /\ requests' = (LeftOf(r) :> Issued(LeftOf(r)))
                            @@ (RightOf(r) :> Issued(RightOf(r))) @@ requests
      ELSE /\ calls' = calls
           /\ requests' = [requests EXCEPT ![r] = @ + 1]

\* The catch clause of fetchLogsRecursive for the range r and the error err.
Catch(r, err) ==
    IF ShouldSplit(r, err)
      THEN /\ calls' = Split(calls, r)
           /\ requests' = (LeftOf(r) :> Issued(LeftOf(r)))
                            @@ (RightOf(r) :> Issued(RightOf(r))) @@ requests
      ELSE /\ calls' = Propagate([calls EXCEPT ![r].st = "err", ![r].err = err], r)
           /\ UNCHANGED requests

\* getLogs rejects with "query returned more than N results".
GetLogsTooLarge(r) ==
    /\ r \in DOMAIN calls
    /\ calls[r].st = "inflight"
    /\ Len(LogsIn(r[1], r[2])) > capacity
    /\ Catch(r, capacityErr)
    /\ answered' = (r :> capacityErr) @@ answered
    /\ UNCHANGED <<chainLogs, capacity, capacityErr, rootRange, faults>>
    /\ UNCHANGED <<cacheVars, poolVars, foldVars, pageVars>>

\* getLogs rejects for any other reason (transport, server, rate limit).
GetLogsFails(r) ==
    /\ r \in DOMAIN calls
    /\ calls[r].st = "inflight"
    /\ faults < MaxFaults
    /\ faults' = faults + 1
    /\ \E err \in OtherErrors :
         /\ Catch(r, err)
         /\ answered' = (r :> err) @@ answered
    /\ UNCHANGED <<chainLogs, capacity, capacityErr, rootRange>>
    /\ UNCHANGED <<cacheVars, poolVars, foldVars, pageVars>>

Ranges == (Blocks \X Blocks) \cup {<<b, b - 1>> : b \in Blocks}

\* The module-level state before any request: let cachedRows = null, cachedAt = 0.
NullRows == [null |-> TRUE, rows |-> <<>>]
NoResponse ==
    [found |-> "", asked |-> FALSE, status |-> 0, rows |-> <<>>, error |-> ""]
Requests == 1..MaxRequests
BootTime == CACHE_TTL_MS

CacheIdle ==
    /\ cachedRows = NullRows
    /\ cachedAt = 0
    /\ now = BootTime
    /\ head = LEADERBOARD_FROM_BLOCK
    /\ req = [q \in Requests |-> [pc |-> "idle", found |-> "", latest |-> 0]]
    /\ lastResp = NoResponse

FetchIdle ==
    /\ capacity = MaxCapacity
    /\ capacityErr \in {e \in CapacityErrors : e.inner = Undefined}
    /\ rootRange = NoRange
    /\ calls = <<>>
    /\ requests = <<>>
    /\ answered = <<>>
    /\ faults = 0

NoStats == <<>>

FoldIdle ==
    /\ script = "cjs"
    /\ evlog = <<>>
    /\ chunk = 1
    /\ latestBlock = 0
    /\ fromBlock = 0
    /\ queried = <<>>
    /\ scanFaults = 0
    /\ pass = "done"
    /\ pos = 0
    /\ buyCounts = NoStats
    /\ claimTxCounts = NoStats
    /\ buysClaimedCounts = NoStats
    /\ tokensClaimed = NoStats
    /\ stats = NoStats
    /\ lines = <<>>

PoolIdle ==
    /\ variant = "part_000"
    /\ buyerList = 0
    /\ failing = {}
    /\ hung = {}
    /\ CONCURRENCY = 1
    /\ index = 0
    /\ workers = <<>>
    /\ inflight = {}
    /\ resolved = {}
    /\ results = <<>>
    /\ phase = "init"
    /\ csv = <<>>

\* ---- the page (src/app/page.tsx) is not rendered
NoPage == <<>>
PageIdle == page = NoPage

FetchInit ==
    /\ CacheIdle
    /\ PageIdle
    /\ PoolIdle
    /\ FoldIdle
    /\ chainLogs \in [Blocks -> 0..MaxLogsPerBlock]
    /\ capacity \in 1..MaxCapacity
    /\ capacityErr \in CapacityErrors
    /\ rootRange \in {r \in Ranges : r[1] <= r[2] + 1}
    /\ calls = <<>>
    /\ requests = <<>>
    /\ answered = <<>>
    /\ faults = 0

FetchNext ==
    \/ CallFetch
    \/ \E r \in Ranges : GetLogsOk(r)
    \/ \E r \in Ranges : GetLogsTooLarge(r)
    \/ \E r \in Ranges : GetLogsFails(r)

SpecFetch == FetchInit /\ [][FetchNext]_vars


\* ------------------------------------------- fetchLeaderboardFromChain
\* ethers.utils.getAddress accepts an all-lowercase, an all-uppercase or a
\* correctly checksummed address and throws on anything else.
GetAddressThrows(topic) == topic.form \notin {"lower", "upper", "checksum"}

\* The text of an address: the account it names and the casing of its digits.
AddressText(acct, form) == [acct |-> acct, form |-> form]

\* Mutant of GetAddress: the address keeps the casing it was given in.
GetAddressKeepsCase(topic) == AddressText(topic.acct, topic.form)

\* getAddress returns the checksummed text, whatever the casing given.
GetAddress(topic) == AddressText(topic.acct, "checksum")

\* The guards of the loop body: topics present, topic 1 a 66-character string.
TopicUsable(log) ==
    /\ Len(log.topics) >= 2
    /\ log.topics[2].len = 66

\* counts.get(addr) ?? 0, on a Map kept as the sequence of its entries in
\* insertion order.
MapHas(m, k) == \E i \in 1..Len(m) : m[i].wallet = k
MapGet(m, k) ==
    IF MapHas(m, k) THEN m[CHOOSE i \in 1..Len(m) : m[i].wallet = k].totalBuys ELSE 0
MapSet(m, k, v) ==
    IF MapHas(m, k)
      THEN [i \in 1..Len(m) |-> IF m[i].wallet = k THEN [wallet |-> k, totalBuys |-> v] ELSE m[i]]
      ELSE Append(m, [wallet |-> k, totalBuys |-> v])

\* One turn of `for (const log of logs)` in fetchLeaderboardFromChain.
CountLog(counts, log) ==
    IF ~TopicUsable(log) THEN counts
    ELSE IF GetAddressThrows(log.topics[2]) THEN counts
    ELSE LET addr == GetAddress(log.topics[2])
         IN MapSet(counts, addr, MapGet(counts, addr) + 1)

RECURSIVE CountBuys(_, _)
CountBuys(counts, logs) ==
    IF logs = <<>> THEN counts
    ELSE CountBuys(CountLog(counts, Head(logs)), Tail(logs))

RECURSIVE InsertByBuysTiesFirst(_, _)
\* Mutant of InsertByBuys: a row goes before the rows it ties with.
InsertByBuysTiesFirst(sorted, row) ==
    IF sorted = <<>> THEN <<row>>
    ELSE IF Head(sorted).totalBuys > row.totalBuys
      THEN <<Head(sorted)>> \o InsertByBuysTiesFirst(Tail(sorted), row)
    ELSE <<row>> \o sorted

RECURSIVE InsertByBuys(_, _)
\* Insert row behind every row of sorted that has at least as many buys.
InsertByBuys(sorted, row) ==
    IF sorted = <<>> THEN <<row>>
    ELSE IF Head(sorted).totalBuys >= row.totalBuys
      THEN <<Head(sorted)>> \o InsertByBuys(Tail(sorted), row)
    ELSE <<row>> \o sorted

RECURSIVE SortByBuys(_)
\* .sort((a, b) => b.totalBuys - a.totalBuys): descending and stable.
SortByBuys(rows) ==
    IF rows = <<>> THEN <<>>
    ELSE InsertByBuys(SortByBuys(SubSeq(rows, 1, Len(rows) - 1)), rows[Len(rows)])

\* .slice(0, n)
Slice(rows, n) == SubSeq(rows, 1, IF Len(rows) < n THEN Len(rows) ELSE n)

\* The rows fetchLeaderboardFromChain builds from the logs it fetched.
LeaderboardRows(logs) ==
    Slice(SortByBuys(CountBuys(<<>>, logs)), LEADERBOARD_MAX_ENTRIES)

\* ------------------------------------------------------------------ GET
SomeRows(rows) == [null |-> FALSE, rows |-> rows]

\* `cachedRows &&`: null is falsy, every array (the empty one too) is truthy.
Truthy(slot) == ~slot.null

\* Mutant of IsFresh: the age test is inverted.
IsFreshInverted(t) == Truthy(cachedRows) /\ t - cachedAt > CACHE_TTL_MS

\* if (cachedRows && now - cachedAt < CACHE_TTL_MS)
IsFresh(t) == Truthy(cachedRows) /\ t - cachedAt < CACHE_TTL_MS

Json(status, rows, error) == [status |-> status, rows |-> rows, error |-> error]
STALE_ERROR == "Failed to refresh leaderboard, serving cached data."
LOAD_ERROR == "Failed to load leaderboard"

\* Mutant of CatchResponse: an empty slot is answered like a stale one.
CatchResponseAlways200(slot) == Json(200, slot.rows, STALE_ERROR)

\* The catch clause of GET, reading the slot as it is when the refresh fails.
CatchResponse(slot) ==
    IF Truthy(slot) /\ Len(slot.rows) > 0
      THEN Json(200, slot.rows, STALE_ERROR)
      ELSE Json(500, <<>>, LOAD_ERROR)

Refreshing(q) == req[q].pc \in {"getBlockNumber", "getLogs"}

\* What the test of line 143 found: no snapshot, a fresh one or an expired one.
Found(t) ==
    IF ~Truthy(cachedRows) THEN "empty"
    ELSE IF t - cachedAt < CACHE_TTL_MS THEN "fresh" ELSE "expired"

\* The response GET returns, with what the request found on entry and
\* whether the provider was asked anything on its behalf (how many requests
\* a refresh takes depends on how fetchLogsRecursive splits).
Respond(found, asked, json) ==
    [found |-> found, asked |-> asked,
     status |-> json.status, rows |-> json.rows, error |-> json.error]

IdleRequest == [pc |-> "idle", found |-> "", latest |-> 0]

\* Whether a GET at the given await has asked the provider for anything.
Asked(pc) == pc \in {"getBlockNumber", "getLogs"}

\* A request arrives: GET runs up to its first await, or to its return when
\* the snapshot is fresh.
GetEnter(q) ==
    /\ req[q].pc = "idle"
    /\ IF IsFresh(now)
         THEN /\ lastResp' = Respond(Found(now), FALSE, Json(200, cachedRows.rows, ""))
              /\ UNCHANGED req
         ELSE /\ req' = [req EXCEPT ![q].pc = "getBlockNumber", ![q].found = Found(now)]
              /\ UNCHANGED lastResp
    /\ UNCHANGED <<cachedRows, cachedAt, now, head>>
    /\ UNCHANGED <<fetchVars, poolVars, foldVars, pageVars>>

\* provider.getBlockNumber() resolves; fetchLogsRecursive is called and issues
\* its getLogs request.
GetBlockNumberOk(q) ==
    /\ req[q].pc = "getBlockNumber"
    /\ req' = [req EXCEPT ![q].pc = "getLogs", ![q].latest = head]
    /\ UNCHANGED <<cachedRows, cachedAt, now, head, lastResp>>
    /\ UNCHANGED <<fetchVars, poolVars, foldVars, pageVars>>

\* Mutant of RefreshOk: the rows are published, the timestamp is not.
RefreshOkRowsOnly(q) ==
    /\ req[q].pc = "getLogs"
    /\ LET rows == LeaderboardRows(LogsIn(LEADERBOARD_FROM_BLOCK, req[q].latest))
       IN /\ cachedRows' = SomeRows(rows)
          /\ lastResp' = Respond(req[q].found, Asked(req[q].pc), Json(200, rows, ""))
    /\ req' = [req EXCEPT ![q] = IdleRequest]
    /\ UNCHANGED <<cachedAt, now, head>>
    /\ UNCHANGED <<fetchVars, poolVars, foldVars, pageVars>>

\* fetchLogsRecursive returns the logs of [LEADERBOARD_FROM_BLOCK, latestBlock]:
\* the rows are built, published and returned.
RefreshOk(q) ==
    /\ req[q].pc = "getLogs"
    /\ LET rows == LeaderboardRows(LogsIn(LEADERBOARD_FROM_BLOCK, req[q].latest))
       IN /\ cachedRows' = SomeRows(rows)
          /\ cachedAt' = now
          /\ lastResp' = Respond(req[q].found, Asked(req[q].pc), Json(200, rows, ""))
    /\ req' = [req EXCEPT ![q] = IdleRequest]
    /\ UNCHANGED <<now, head>>
    /\ UNCHANGED <<fetchVars, poolVars, foldVars, pageVars>>

\* Mutant of RefreshFails: the catch clause empties the slot.
RefreshFailsClears(q) ==
    /\ Refreshing(q)
    /\ lastResp' = Respond(req[q].found, Asked(req[q].pc), CatchResponse(cachedRows))
    /\ req' = [req EXCEPT ![q] = IdleRequest]
    /\ cachedRows' = NullRows
    /\ cachedAt' = 0
    /\ UNCHANGED <<now, head>>
    /\ UNCHANGED <<fetchVars, poolVars, foldVars, pageVars>>

\* Mutant of RefreshFails: the failure is stamped as if it were a refresh.
RefreshFailsStamps(q) ==
    /\ Refreshing(q)
    /\ lastResp' = Respond(req[q].found, Asked(req[q].pc), CatchResponse(cachedRows))
    /\ req' = [req EXCEPT ![q] = IdleRequest]
    /\ cachedAt' = now
    /\ UNCHANGED <<cachedRows, now, head>>
    /\ UNCHANGED <<fetchVars, poolVars, foldVars, pageVars>>

\* getBlockNumber or fetchLogsRecursive rejects: the catch clause answers.
RefreshFails(q) ==
    /\ Refreshing(q)
    /\ lastResp' = Respond(req[q].found, Asked(req[q].pc), CatchResponse(cachedRows))
    /\ req' = [req EXCEPT ![q] = IdleRequest]
    /\ UNCHANGED <<cachedRows, cachedAt, now, head>>
    /\ UNCHANGED <<fetchVars, poolVars, foldVars, pageVars>>

\* The instants the clock is observed at: around each multiple of the TTL.
Instants ==
    {BootTime + k * CACHE_TTL_MS + d : k \in 0..MaxEpochs, d \in {-1, 0}}

Tick ==
    /\ \E t \in Instants : t > now /\ now' = t
    /\ UNCHANGED <<cachedRows, cachedAt, head, req, lastResp>>
    /\ UNCHANGED <<fetchVars, poolVars, foldVars, pageVars>>

\* The chain grows by one block.
NewBlock ==
    /\ head < LEADERBOARD_FROM_BLOCK + MaxBlock
    /\ head' = head + 1
    /\ UNCHANGED <<cachedRows, cachedAt, now, req, lastResp>>
    /\ UNCHANGED <<fetchVars, poolVars, foldVars, pageVars>>

\* The chains the cache is run against: the contract emits no Buy before some
\* block (possibly never) and one Buy in every block from there on.
CacheChains ==
    {[b \in Blocks |-> IF b < first THEN 0 ELSE 1] :
        first \in LEADERBOARD_FROM_BLOCK..(LEADERBOARD_FROM_BLOCK + MaxBlock + 1)}

CacheInit ==
    /\ CacheIdle
    /\ PageIdle
    /\ PoolIdle
    /\ FoldIdle
    /\ FetchIdle
    /\ chainLogs \in CacheChains

CacheNext ==
    \/ \E q \in Requests : GetEnter(q)
    \/ \E q \in Requests : GetBlockNumberOk(q)
    \/ \E q \in Requests : RefreshOk(q)
    \/ \E q \in Requests : RefreshFails(q)
    \/ Tick
    \/ NewBlock

SpecCache == CacheInit /\ [][CacheNext]_vars

\* ------------------------------------------------ the pool of contract reads
ReadFunctions == {"totalBuys", "claimableBuys"}

\* What the contract answers for wallet i (0-based, as buyerList[i]): every
\* discovered wallet emitted a Buy, so its totalBuys is at least 1.
TotalBuysOf(i) == (i \div 2) + 1
ClaimableBuysOf(i) == i % 3

Max(a, b) == IF a >= b THEN a ELSE b
Min(a, b) == IF a <= b THEN a ELSE b

\* The row pushed after both reads of wallet i resolved.
ReadRow(i) ==
    [wallet |-> i, totalBuys |-> TotalBuysOf(i),
     totalClaims |-> Max(0, TotalBuysOf(i) - ClaimableBuysOf(i))]

\* The row pushed by the catch clause of the worker.
FailedRow(i) == [wallet |-> i, totalBuys |-> 0, totalClaims |-> 0]

\* Mutant of ClaimNext: the shared index advances by two.
ClaimNextSkips(v, idx, n) ==
    IF idx >= n THEN [got |-> FALSE, i |-> idx, index |-> idx]
    ELSE [got |-> TRUE, i |-> idx, index |-> idx + 2]

\* The head of the worker loop, which runs without an await.
\*   part_000: const i = index; if (i >= buyerList.length) break; index++;
\*   part_002: const i = index++; if (i >= wallets.length) break;
ClaimNext(v, idx, n) ==
    IF v = "part_000"
      THEN IF idx >= n THEN [got |-> FALSE, i |-> idx, index |-> idx]
           ELSE [got |-> TRUE, i |-> idx, index |-> idx + 1]
      ELSE [got |-> idx < n, i |-> idx, index |-> idx + 1]

AwaitReads(i) == [pc |-> "await", i |-> i]
WorkerDone == [pc |-> "done", i |-> 0]
ReadsOf(i) == {<<i, f>> : f \in ReadFunctions}

\* A worker at the head of its loop: it takes the next wallet and issues the
\* two reads, or leaves the loop.
Loop(w, ws, idx, fl) ==
    LET c == ClaimNext(variant, idx, buyerList) IN
    IF c.got
      THEN [workers |-> [ws EXCEPT ![w] = AwaitReads(c.i)], index |-> c.index,
            inflight |-> fl \cup ReadsOf(c.i)]
      ELSE [workers |-> [ws EXCEPT ![w] = WorkerDone], index |-> c.index,
            inflight |-> fl]

RECURSIVE InsertRow(_, _)
InsertRow(sorted, row) ==
    IF sorted = <<>> THEN <<row>>
    ELSE IF Head(sorted).totalBuys >= row.totalBuys
      THEN <<Head(sorted)>> \o InsertRow(Tail(sorted), row)
    ELSE <<row>> \o sorted

RECURSIVE SortRows(_)
\* rows.sort((a, b) => b.totalBuys - a.totalBuys): descending and stable.
SortRows(rs) ==
    IF rs = <<>> THEN <<>>
    ELSE InsertRow(SortRows(SubSeq(rs, 1, Len(rs) - 1)), rs[Len(rs)])

AllDone(ws) == \A w \in 1..CONCURRENCY : ws[w].pc = "done"

\* What follows the return of a worker: when it was the last one,
\* await Promise.all(workers) resolves, the rows are sorted and the CSV written.
AfterWorkers(ws, rs) ==
    IF AllDone(ws)
      THEN /\ results' = SortRows(rs)
           /\ csv' = SortRows(rs)
           /\ phase' = "written"
      ELSE /\ results' = rs
           /\ csv' = csv
           /\ phase' = "running"

RECURSIVE StartWorkers(_, _)
\* for (let i = 0; i < CONCURRENCY; i++) workers.push(worker(i)): each worker
\* runs to its first await before the next one is started.
StartWorkers(w, st) ==
    IF w > CONCURRENCY THEN st
    ELSE StartWorkers(w + 1, Loop(w, st.workers, st.index, st.inflight))

StartPool ==
    /\ phase = "init"
    /\ LET st == StartWorkers(1, [workers |-> [w \in 1..CONCURRENCY |-> WorkerDone],
                                  index |-> index, inflight |-> {}])
       IN /\ workers' = st.workers
          /\ index' = st.index
          /\ inflight' = st.inflight
          /\ AfterWorkers(st.workers, results)
    /\ UNCHANGED <<variant, buyerList, failing, hung, CONCURRENCY, resolved>>
    /\ UNCHANGED <<fetchVars, cacheVars, foldVars, pageVars>>

Awaiting(w, i) == workers[w].pc = "await" /\ workers[w].i = i

\* The worker continues after its await: it pushes a row and loops.
Continue(w, row, fl) ==
    LET st == Loop(w, workers, index, fl) IN
    /\ workers' = st.workers
    /\ index' = st.index
    /\ inflight' = st.inflight
    /\ AfterWorkers(st.workers, Append(results, row))

\* A read of a wallet resolves; when it is the second of the two, Promise.all
\* resolves and the worker goes on; when the other read has been rejected
\* the worker has gone on already and the answer finds nobody waiting.
ReadResolves(i, f) ==
    /\ phase \in {"running", "written"}
    /\ <<i, f>> \in inflight
    /\ <<i, f>> \notin hung
    /\ i \notin failing
    /\ IF ~\E w \in 1..CONCURRENCY : Awaiting(w, i)
         THEN /\ inflight' = inflight \ {<<i, f>>}
              /\ UNCHANGED <<resolved, results, workers, index, phase, csv>>
         ELSE IF \A g \in ReadFunctions \ {f} : <<i, g>> \in resolved
         THEN /\ \E w \in 1..CONCURRENCY :
                   /\ Awaiting(w, i)
                   /\ Continue(w, ReadRow(i), inflight \ {<<i, f>>})
              /\ resolved' = resolved \ ReadsOf(i)
         ELSE /\ inflight' = inflight \ {<<i, f>>}
              /\ resolved' = resolved \cup {<<i, f>>}
              /\ UNCHANGED <<results, workers, index, phase, csv>>
    /\ UNCHANGED <<variant, buyerList, failing, hung, CONCURRENCY>>
    /\ UNCHANGED <<fetchVars, cacheVars, foldVars, pageVars>>

\* Mutant of ReadRejects: the worker has no catch clause, the rejection ends it.
ReadRejectsUncaught(i, f) ==
    /\ phase = "running"
    /\ <<i, f>> \in inflight
    /\ <<i, f>> \notin hung
    /\ i \in failing
    /\ \E w \in 1..CONCURRENCY :
         /\ Awaiting(w, i)
         /\ workers' = [workers EXCEPT ![w] = WorkerDone]
    /\ inflight' = inflight \ {<<i, f>>}
    /\ UNCHANGED <<variant, buyerList, failing, hung, CONCURRENCY, resolved,
                   results, index, phase, csv>>
    /\ UNCHANGED <<fetchVars, cacheVars, foldVars, pageVars>>

\* A read of a wallet rejects; the first rejection rejects Promise.all and the
\* catch clause of the worker runs, the second finds nobody waiting.
ReadRejects(i, f) ==
    /\ phase \in {"running", "written"}
    /\ <<i, f>> \in inflight
    /\ <<i, f>> \notin hung
    /\ i \in failing
    /\ IF \E w \in 1..CONCURRENCY : Awaiting(w, i)
         THEN \E w \in 1..CONCURRENCY :
                /\ Awaiting(w, i)
                /\ Continue(w, FailedRow(i), inflight \ {<<i, f>>})
         ELSE /\ inflight' = inflight \ {<<i, f>>}
              /\ UNCHANGED <<results, workers, index, phase, csv>>
    /\ UNCHANGED <<variant, buyerList, failing, hung, CONCURRENCY, resolved>>
    /\ UNCHANGED <<fetchVars, cacheVars, foldVars, pageVars>>

\* Mutant of ReadTimesOut: the read carries no timeout, it stays unanswered.
ReadNeverTimesOut(i, f) ==
    /\ phase \in {"running", "written"}
    /\ <<i, f>> \in inflight
    /\ <<i, f>> \in hung
    /\ UNCHANGED vars

\* A read the node never answers. The reads are sent through the
\* JsonRpcProvider of ethers (part_000 line 52, part_002 line 55), which
\* rejects a request that has had no answer when its connection timeout runs
\* out (120 seconds unless the connection names another). The rejection
\* reaches the worker as any other: it rejects Promise.all and the catch
\* clause runs, or it finds nobody waiting.
ReadTimesOut(i, f) ==
    /\ phase \in {"running", "written"}
    /\ <<i, f>> \in inflight
    /\ <<i, f>> \in hung
    /\ IF \E w \in 1..CONCURRENCY : Awaiting(w, i)
         THEN \E w \in 1..CONCURRENCY :
                /\ Awaiting(w, i)
                /\ Continue(w, FailedRow(i), inflight \ {<<i, f>>})
         ELSE /\ inflight' = inflight \ {<<i, f>>}
              /\ UNCHANGED <<results, workers, index, phase, csv>>
    /\ resolved' = resolved \ ReadsOf(i)
    /\ UNCHANGED <<variant, buyerList, failing, hung, CONCURRENCY>>
    /\ UNCHANGED <<fetchVars, cacheVars, foldVars, pageVars>>

PoolInit ==
    /\ CacheIdle
    /\ PageIdle
    /\ FetchIdle
    /\ FoldIdle
    /\ chainLogs = [b \in Blocks |-> 0]
    /\ variant \in {"part_000", "part_002"}
    /\ buyerList \in 0..MaxWallets
    /\ failing \in SUBSET (0..(buyerList - 1))
    /\ hung = {}
    /\ CONCURRENCY \in 1..MaxPool
    /\ index = 0
    /\ workers = <<>>
    /\ inflight = {}
    /\ resolved = {}
    /\ results = <<>>
    /\ phase = "init"
    /\ csv = <<>>

PoolNext ==
    \/ StartPool
    \/ \E i \in 0..(MaxWallets - 1), f \in ReadFunctions : ReadResolves(i, f)
    \/ \E i \in 0..(MaxWallets - 1), f \in ReadFunctions : ReadRejects(i, f)

SpecPool == PoolInit /\ [][PoolNext]_vars

\* The pool with a node that may leave one read unanswered for ever.
PoolHungInit ==
    /\ CacheIdle
    /\ PageIdle
    /\ FetchIdle
    /\ FoldIdle
    /\ chainLogs = [b \in Blocks |-> 0]
    /\ variant \in {"part_000", "part_002"}
    /\ buyerList \in 0..MaxWallets
    /\ failing \in SUBSET (0..(buyerList - 1))
    /\ hung \in {h \in SUBSET ((0..(buyerList - 1)) \X ReadFunctions) : Cardinality(h) <= 1}
    /\ CONCURRENCY \in 1..MaxPool
    /\ index = 0
    /\ workers = <<>>
    /\ inflight = {}
    /\ resolved = {}
    /\ results = <<>>
    /\ phase = "init"
    /\ csv = <<>>

PoolHungNext ==
    \/ PoolNext
    \/ \E i \in 0..(MaxWallets - 1), f \in ReadFunctions : ReadTimesOut(i, f)

SpecPoolHung == PoolHungInit /\ [][PoolHungNext]_vars

\* The script is started, the node answers every read it does not leave
\* unanswered, and the timer of the provider fires.
SpecPoolHungLive == SpecPoolHung /\ WF_vars(PoolHungNext)

\* ------------------------------------------------ properties of the fetcher
RootSettled == calls # <<>> /\ Settled(calls[rootRange])
RootOk == calls # <<>> /\ calls[rootRange].st = "ok"
RootFailed == calls # <<>> /\ calls[rootRange].st = "err"

SeqRange(s) == {s[i] : i \in 1..Len(s)}
Occurrences(s, x) == Cardinality({i \in 1..Len(s) : s[i] = x})
SameBag(s, t) ==
    \A x \in SeqRange(s) \cup SeqRange(t) : Occurrences(s, x) = Occurrences(t, x)

EveryBlockFits ==
    \A b \in rootRange[1]..rootRange[2] : chainLogs[b] <= capacity

IsCapacity(err) == ErrCode(err) = CAPACITY_CODE
IsOtherFailure(err) == err # NoError /\ ~IsCapacity(err)

\* C1 as claimed: with a provider that fails only above the capacity threshold,
\* fetchLogsRecursive returns, for every range and threshold, the multiset of
\* logs of a single unlimited getLogs over the range.
C1_SplitEquivalenceAnyThreshold ==
    (RootSettled /\ faults = 0) =>
        (RootOk /\ SameBag(calls[rootRange].res, LogsIn(rootRange[1], rootRange[2])))

\* C1 amended: whenever fetchLogsRecursive returns, its result is the multiset
\* of logs of a single unlimited getLogs over the range (none missing, none
\* duplicated); and it does return, with a provider that fails only above the
\* threshold, whenever no single block of the range holds more logs than the
\* threshold.
C1_SplitEquivalence ==
    /\ RootOk => SameBag(calls[rootRange].res, LogsIn(rootRange[1], rootRange[2]))
    /\ (RootSettled /\ faults = 0 /\ EveryBlockFits) => RootOk

\* C1 witness: the call returned after at least one split, with more logs than
\* one request may carry.
C1_Witness ==
    /\ RootOk
    /\ Cardinality(DOMAIN calls) > 1
    /\ Len(calls[rootRange].res) > capacity

\* C9 as claimed: fetchLogsRecursive never rejects with a capacity-exceeded
\* error, whatever the range.
C9_CapacityNeverSurfaces ==
    RootFailed => ~IsCapacity(calls[rootRange].err)

\* C9 amended: a capacity-exceeded error raised for a range of more than one
\* block is always answered by splitting that range, and a call rejects with a
\* capacity-exceeded error only when the provider raised that very error for a
\* single block of its range.
C9_CapacityRecoveredUnlessSingleBlock ==
    /\ \A r \in DOMAIN answered :
         (IsCapacity(answered[r]) /\ r[1] < r[2]) =>
             /\ LeftOf(r) \in DOMAIN calls
             /\ RightOf(r) \in DOMAIN calls
             /\ calls[LeftOf(r)].parent = r
             /\ calls[RightOf(r)].parent = r
    /\ \A r \in DOMAIN calls :
         (calls[r].st = "err" /\ IsCapacity(calls[r].err)) =>
             \E b \in r[1]..r[2] :
                 /\ <<b, b>> \in DOMAIN answered
                 /\ answered[<<b, b>>] = calls[r].err
                 /\ chainLogs[b] > capacity

\* C9 witness: the outermost request was refused for capacity and the call
\* still returned its logs.
C9_Witness ==
    /\ RootOk
    /\ rootRange \in DOMAIN answered
    /\ IsCapacity(answered[rootRange])

\* C10: a provider failure other than capacity-exceeded rejects the call of
\* the failing range with that same error, without a second request for the
\* range, and the outermost call rejects with an error the provider raised.
C10_OtherFailuresPropagate ==
    /\ \A r \in DOMAIN answered :
         IsOtherFailure(answered[r]) =>
             /\ requests[r] = 1
             /\ calls[r].st = "err"
             /\ calls[r].err = answered[r]
    /\ faults > 0 => RootFailed
    /\ RootFailed =>
         \E r \in DOMAIN answered : calls[rootRange].err = answered[r]
    /\ \A r \in DOMAIN requests : requests[r] <= 1

\* C10 witness: a sub-range of a split failed and its error reached the caller.
C10_Witness ==
    /\ RootFailed
    /\ \E r \in DOMAIN answered :
         /\ r # rootRange
         /\ IsOtherFailure(answered[r])
         /\ calls[rootRange].err = answered[r]

\* The provider answers every request it was sent, and the caller calls.
FetchLiveInit ==
    /\ FetchInit
    /\ capacity = 1
    /\ capacityErr.code = CAPACITY_CODE

SpecFetchLive == FetchLiveInit /\ [][FetchNext]_vars /\ WF_vars(FetchNext)

Width(r) == r[2] - r[1]

\* Every call made by a split is for a non-empty range lying inside the range
\* that was split and strictly smaller than it, and no range of one block (or
\* none) is ever split.
SplitsShrink ==
    /\ \A r \in DOMAIN calls :
         LET p == calls[r].parent
         IN p # NoRange =>
              /\ p[1] <= r[1] /\ r[1] <= r[2] /\ r[2] <= p[2]
              /\ Width(r) < Width(p)
              /\ calls[p].st # "inflight"
    /\ \A r \in DOMAIN calls :
         (\E c \in DOMAIN calls : calls[c].parent = r) =>
             /\ r[1] < r[2]
             /\ LeftOf(r) \in DOMAIN calls
             /\ RightOf(r) \in DOMAIN calls
             /\ LeftOf(r)[2] + 1 = RightOf(r)[1]

\* C11: with a provider that answers every request, fetchLogsRecursive
\* eventually settles; every split makes two strictly smaller non-empty
\* sub-ranges and a single-block range is never split.
C11_SplittingTerminates == []SplitsShrink /\ <>RootSettled

\* C11 witness: the call settled after a split of a split, down to single
\* blocks that held too many logs or answered.
C11_Witness ==
    /\ RootSettled
    /\ \E r \in DOMAIN calls :
         /\ calls[r].parent # NoRange
         /\ calls[calls[r].parent].parent # NoRange
         /\ r[1] = r[2]

\* C12: a call for a range with from > to returns the empty list and no
\* getLogs request is ever issued or answered for that range.
C12_EmptyRangeNoRequest ==
    \A r \in DOMAIN calls :
        r[1] > r[2] =>
            /\ calls[r].st = "ok"
            /\ calls[r].res = <<>>
            /\ requests[r] = 0
            /\ r \notin DOMAIN answered

\* C12 witness: fetchLogsRecursive was called with from = to + 1.
C12_Witness ==
    /\ calls # <<>>
    /\ rootRange[1] > rootRange[2]
    /\ rootRange \in DOMAIN calls

\* -------------------------------------------------- properties of the cache
\* The last response came from the catch clause of GET.
AnsweredByCatch == lastResp.error # ""

\* C2: once a snapshot has been published, whatever rows it holds, a GET that
\* found it expired and whose refresh failed answers 200 with the rows of that
\* snapshot and the staleness message, never an error status.
C2_StaleFallback ==
    (lastResp.found = "expired" /\ AnsweredByCatch) =>
        /\ lastResp.status = 200
        /\ lastResp.rows = cachedRows.rows
        /\ lastResp.error = STALE_ERROR

\* C3: at most one GET is inside fetchLeaderboardFromChain at any time.
C3_SingleRefreshInFlight ==
    Cardinality({q \in Requests : Refreshing(q)}) <= 1

\* C7: a GET that finds a snapshot younger than the TTL answers 200 with the
\* cached rows and no error field, having made no provider request; no GET
\* that found a fresh snapshot is ever inside a refresh.
C7_FreshHit ==
    /\ lastResp.found = "fresh" =>
         /\ lastResp.status = 200
         /\ lastResp.error = ""
         /\ ~lastResp.asked
         /\ lastResp.rows = cachedRows.rows
    /\ \A q \in Requests : Refreshing(q) => req[q].found # "fresh"

\* C7 witness: a GET was answered from a fresh snapshot that holds rows.
C7_Witness ==
    /\ lastResp.found = "fresh"
    /\ lastResp.status = 200
    /\ Len(lastResp.rows) > 0

\* C8: when a refresh fails while no snapshot has ever been published, GET
\* answers 500 with the load error and no rows, and the slot stays empty.
C8_EmptyCacheFailure ==
    [][(/\ ~Truthy(cachedRows)
        /\ \E q \in Requests : Refreshing(q) /\ req'[q].pc = "idle"
        /\ lastResp'.error # "")
       => (/\ lastResp'.status = 500
           /\ lastResp'.error = LOAD_ERROR
           /\ lastResp'.rows = <<>>
           /\ cachedRows' = NullRows
           /\ cachedAt' = cachedAt)]_vars

\* C8 witness: a refresh failed on the empty slot and was answered 500.
C8_Witness ==
    /\ ~Truthy(cachedRows)
    /\ lastResp.status = 500
    /\ lastResp.found = "empty"

\* --------------------------------------------------- properties of the pool
RowsOf(i) == {k \in 1..Len(results) : results[k].wallet = i}

\* C4: when the pool has completed, the result holds exactly one row per
\* discovered wallet, the failure marker for exactly the wallets whose reads
\* fail and the values read for every other wallet, whatever the pool size.
C4_PoolCompleteness ==
    phase = "written" =>
        /\ Len(results) = buyerList
        /\ \A i \in 0..(buyerList - 1) : Cardinality(RowsOf(i)) = 1
        /\ \A k \in 1..Len(results) :
             /\ results[k].wallet \in failing => results[k] = FailedRow(results[k].wallet)
             /\ results[k].wallet \notin failing => results[k] = ReadRow(results[k].wallet)
        /\ Cardinality({k \in 1..Len(results) :
                          results[k].totalBuys = 0 /\ results[k].totalClaims = 0})
             = Cardinality(failing)

\* C4 witness: a pool of several workers completed over more wallets than
\* workers, some of them failing and some not.
C4_Witness ==
    /\ phase = "written"
    /\ CONCURRENCY >= 2
    /\ buyerList > CONCURRENCY
    /\ failing # {}
    /\ Cardinality(failing) < buyerList

\* What the catch clause of worker w does when a read of the failing wallet
\* it awaits rejects: one row, the failure marker of that wallet, is pushed;
\* the worker takes the next pending wallet or leaves its loop; every other
\* worker stays where it is.
CaughtInWorker(w) ==
    (/\ phase = "running"
     /\ workers[w].pc = "await"
     /\ workers[w].i \in failing
     /\ workers'[w] # workers[w]) =>
        /\ Len(results') = Len(results) + 1
        /\ \E k \in 1..Len(results') : results'[k] = FailedRow(workers[w].i)
        /\ workers'[w] = IF index < buyerList THEN AwaitReads(index) ELSE WorkerDone
        /\ \A v \in 1..CONCURRENCY : v # w => workers'[v] = workers[v]
        /\ phase' \in {"running", "written"}

\* While the pool runs, a read that will be answered is in flight: the pool
\* can always take one more step towards its completion.
PoolCanProceed == phase = "running" => inflight \ hung # {}

\* C15: a failed read is caught inside its worker, which goes on with the
\* next pending wallet while no other worker is touched; and with every read
\* answered, by a value or a failure, the pool is never stopped short of its
\* completion.
C15_ReadFailureIsolated ==
    /\ [][\A w \in 1..CONCURRENCY : CaughtInWorker(w)]_vars
    /\ [](hung = {} => PoolCanProceed)

\* C15 witness: one of several workers pushed the failure marker of a wallet
\* and now awaits the reads of a later wallet.
C15_Witness ==
    /\ phase = "running"
    /\ CONCURRENCY >= 2
    /\ \E k \in 1..Len(results), w \in 1..CONCURRENCY :
         /\ results[k].wallet \in failing
         /\ results[k] = FailedRow(results[k].wallet)
         /\ workers[w].pc = "await"
         /\ workers[w].i >= CONCURRENCY

\* The wallets with at least one read in flight.
WalletsInFlight == {r[1] : r \in inflight}

\* C16: in every state of the pool the wallets whose reads are in flight are
\* at most CONCURRENCY.
C16_BoundedConcurrency == Cardinality(WalletsInFlight) <= CONCURRENCY

\* The output holds the failure marker of every wallet with a read that the
\* node left unanswered.
HungWalletsFailed ==
    \A r \in hung : \E k \in 1..Len(csv) : csv[k] = FailedRow(r[1])

\* C17: a read that never answers does not hang the pool: the read times
\* out, its wallet is recorded as failed, and the pool eventually completes
\* and writes its output.
C17_HungReadTimesOut == <>(phase = "written" /\ HungWalletsFailed)

\* C17 witness: the output is written by several workers, with the failure
\* marker of a wallet whose other read was answered and with the row of a
\* wallet that was read.
C17_Witness ==
    /\ phase = "written"
    /\ CONCURRENCY >= 2
    /\ \E r \in hung : r[1] \notin failing
    /\ HungWalletsFailed
    /\ \E k \in 1..Len(csv) : csv[k].wallet \notin failing /\ csv[k] = ReadRow(csv[k].wallet)

\* C18: when the output has been written the work index has passed the last
\* wallet, no read is in flight any more, and the result holds the rows that
\* were written and no other.
C18_WrittenAfterAllReads ==
    phase = "written" =>
        /\ index >= buyerList
        /\ inflight = {}
        /\ results = csv

\* The row of wallet i, fixed by what its reads answer.
RowOf(i) == IF i \in failing THEN FailedRow(i) ELSE ReadRow(i)

\* C20: the rows written are a function of the discovered wallets and of what
\* their reads answer: the rows in order of discovery, sorted by total buys
\* with ties left in that order, however the reads interleaved.
C20_ExportOrderFixed ==
    phase = "written" => csv = SortRows([k \in 1..buyerList |-> RowOf(k - 1)])

\* ------------------------------------------------- aggregation of logs
\* A uint256 field or a JavaScript number is held as two limbs,
\* value = hi * Limb + lo, so that values around 2^53 stay exact here.
Limb == 2^27

Num(hi, lo) == [hi |-> hi, lo |-> lo]
Small(n) == Num(0, n)

\* Exact integer addition (BigNumber.add).
NumAdd(a, b) ==
    LET lo == a.lo + b.lo
    IN Num(a.hi + b.hi + (lo \div Limb), lo % Limb)

\* Number.MAX_SAFE_INTEGER = 2^53 - 1
MAX_SAFE == Num(2^26 - 1, Limb - 1)

\* BigNumber.toNumber() throws "overflow" for a value of more than 53 bits.
ToNumberThrows(x) == x.hi >= 2^26

RECURSIVE Ulp(_)
\* The spacing of doubles at a non-negative integer whose high limb is hi:
\* 1 below 2^53, doubling with every further bit.
Ulp(hi) == IF hi < 2^26 THEN 1 ELSE 2 * Ulp(hi \div 2)

\* The double nearest to the integer s, ties to the even mantissa.
RoundToDouble(s) ==
    LET u == Ulp(s.hi)
        r == s.lo % u
        down == Num(s.hi, s.lo - r)
        odd == ((s.lo - r) \div u) % 2 = 1
    IN IF 2 * r > u \/ (2 * r = u /\ odd) THEN NumAdd(down, Small(u)) ELSE down

\* a + b on JavaScript numbers holding integers.
DoubleAdd(a, b) == RoundToDouble(NumAdd(a, b))

\* ---- token amounts (ethers.BigNumber)
\* A uint256 amount is held in limbs of nine decimal digits,
\* value = e18 * 10^18 + e9 * 10^9 + e0.
Giga == 10^9

Big(e18, e9, e0) == [e18 |-> e18, e9 |-> e9, e0 |-> e0]
BigZero == Big(0, 0, 0)

\* BigNumber.add: exact.
BigAdd(a, b) ==
    LET s0 == a.e0 + b.e0
        s1 == a.e9 + b.e9 + (s0 \div Giga)
    IN Big(a.e18 + b.e18 + (s1 \div Giga), s1 % Giga, s0 % Giga)

RECURSIVE Digits(_)
\* The decimal digits of the natural number n, most significant first.
Digits(n) == IF n < 10 THEN <<n>> ELSE Append(Digits(n \div 10), n % 10)

PadStartNever(s, w) == s

RECURSIVE PadStart(_, _)
\* while (s.length < w) { s = "0" + s; }
PadStart(s, w) == IF Len(s) >= w THEN s ELSE PadStart(<<0>> \o s, w)

\* BigNumber.toString(): the decimal digits without leading zeros.
BigToString(x) ==
    IF x.e18 > 0 THEN Digits(x.e18) \o PadStart(Digits(x.e9), 9) \o PadStart(Digits(x.e0), 9)
    ELSE IF x.e9 > 0 THEN Digits(x.e9) \o PadStart(Digits(x.e0), 9)
    ELSE Digits(x.e0)

TBAG_DECIMALS == 18

\* value.div(10^18) and value.mod(10^18)
BigDivUnit(x) == Big(0, 0, x.e18)
BigModUnit(x) == Big(0, x.e9, x.e0)

RECURSIVE StripZeros(_)
\* fraction.match(/^([0-9]*[1-9]|0)(0*)/)[1]: the digits up to the last
\* one that is not 0, or one 0.
StripZeros(s) ==
    IF Len(s) <= 1 THEN s
    ELSE IF s[Len(s)] # 0 THEN s
    ELSE StripZeros(SubSeq(s, 1, Len(s) - 1))

\* ethers.utils.formatUnits(value, decimals) for a non-negative value:
\* the text whole + "." + fraction.
FormatUnits(value, decimals) ==
    [whole |-> BigToString(BigDivUnit(value)),
     fraction |-> StripZeros(PadStart(BigToString(BigModUnit(value)), decimals))]

CLAIM_TOPIC == "Claim(address,uint256,uint256)"

\* A Buy log of acct: two topics, two words of data.
BuyLog(topic) ==
    [topics |-> <<BUY_TOPIC, topic>>, dataLen |-> 128,
     buysClaimed |-> Small(0), tokensPaid |-> BigZero]

\* A Claim log: data is buysClaimed then tokensPaid, dataLen hex digits.
ClaimLog(topic, dataLen, units, tokens) ==
    [topics |-> <<CLAIM_TOPIC, topic>>, dataLen |-> dataLen,
     buysClaimed |-> units, tokensPaid |-> tokens]

\* The logs the runs draw their chains from: well-formed ones, and one of
\* each malformed kind.
SampleLogs ==
    { BuyLog(AddressTopic("0xAa", "lower")),
      BuyLog(AddressTopic("0xBb", "lower")),
      BuyLog(AddressTopic("0xAa", "upper")),
      ClaimLog(AddressTopic("0xAa", "lower"), 128, Small(1), Big(1, 5 * 10^8, 0)),
      ClaimLog(AddressTopic("0xAa", "lower"), 128, Small(2), Big(0, Giga - 1, Giga - 1)),
      ClaimLog(AddressTopic("0xAa", "lower"), 128, MAX_SAFE, Big(0, 0, 13)),
      ClaimLog(AddressTopic("0xBb", "lower"), 128, Small(1), Big(0, 0, 7)),
      [topics |-> <<CLAIM_TOPIC>>, dataLen |-> 128,
       buysClaimed |-> Small(1), tokensPaid |-> Big(0, 0, 7)],
      ClaimLog(AddressTopic("0xAa", "lower"), 64, Small(1), BigZero),
      ClaimLog(AddressTopic("0xAa", "lower"), 128, Num(2^26, 0), Big(0, 0, 5)),
      BuyLog([len |-> 42, acct |-> "0xBb", form |-> "lower"]) }

\* provider.getLogs({topics: [sigs]}): the logs whose first topic is in sigs.
GetLogs(logs, sigs) == SelectSeq(logs, LAMBDA l : l.topics[1] \in sigs)

\* ---- the Maps
Has(m, k) == \E i \in 1..Len(m) : m[i].wallet = k
At(m, k) == m[CHOOSE i \in 1..Len(m) : m[i].wallet = k]
\* map.get(k) || dflt
GetOr(m, k, dflt) == IF Has(m, k) THEN At(m, k).val ELSE dflt
\* Mutant of Put: the Map is emptied before the entry is written.
PutForgets(m, k, v) == <<[wallet |-> k, val |-> v]>>

\* map.set(k, v): an existing key keeps its place, a new one goes last.
Put(m, k, v) ==
    IF Has(m, k)
      THEN [i \in 1..Len(m) |-> IF m[i].wallet = k THEN [wallet |-> k, val |-> v] ELSE m[i]]
    ELSE Append(m, [wallet |-> k, val |-> v])
Keys(m) == {m[i].wallet : i \in 1..Len(m)}

\* ---- export-buys-and-claims.cjs
\* Mutant of BuyLogStep: the wallet is entered without being counted.
BuyLogStepNoCount(counts, log) ==
    IF Len(log.topics) < 2 THEN counts
    ELSE IF log.topics[2].len # 66 THEN counts
    ELSE IF GetAddressThrows(log.topics[2]) THEN counts
    ELSE LET addr == GetAddress(log.topics[2])
         IN Put(counts, addr, GetOr(counts, addr, 0))

\* The body of the Buy loop for one log.
BuyLogStep(counts, log) ==
    IF Len(log.topics) < 2 THEN counts
    ELSE IF log.topics[2].len # 66 THEN counts
    ELSE IF GetAddressThrows(log.topics[2]) THEN counts
    ELSE LET addr == GetAddress(log.topics[2])
         IN Put(counts, addr, GetOr(counts, addr, 0) + 1)

\* The three Maps the Claim loop writes.
ClaimMaps(txs, units, tokens) ==
    [claimTxCounts |-> txs, buysClaimedCounts |-> units, tokensClaimed |-> tokens]

\* Mutant of ClaimLogStep: the claim tx is counted before the payload is read.
ClaimLogStepCountsFirst(m, log) ==
    IF Len(log.topics) < 2 THEN m
    ELSE IF log.topics[2].len # 66 THEN m
    ELSE IF GetAddressThrows(log.topics[2]) THEN m
    ELSE LET addr == GetAddress(log.topics[2])
             counted == Put(m.claimTxCounts, addr, GetOr(m.claimTxCounts, addr, 0) + 1)
         IN IF log.dataLen # 128 \/ ToNumberThrows(log.buysClaimed)
              THEN ClaimMaps(counted, m.buysClaimedCounts, m.tokensClaimed)
            ELSE ClaimMaps(
                   counted,
                   Put(m.buysClaimedCounts, addr,
                       DoubleAdd(GetOr(m.buysClaimedCounts, addr, Small(0)), log.buysClaimed)),
                   Put(m.tokensClaimed, addr,
                       BigAdd(GetOr(m.tokensClaimed, addr, BigZero), log.tokensPaid)))

\* The body of the Claim loop for one log.
ClaimLogStep(m, log) ==
    IF Len(log.topics) < 2 THEN m
    ELSE IF log.topics[2].len # 66 THEN m
    ELSE IF GetAddressThrows(log.topics[2]) THEN m
    ELSE IF log.dataLen # 128 THEN m
    ELSE IF ToNumberThrows(log.buysClaimed) THEN m
    ELSE LET addr == GetAddress(log.topics[2])
         IN ClaimMaps(
              Put(m.claimTxCounts, addr, GetOr(m.claimTxCounts, addr, 0) + 1),
              Put(m.buysClaimedCounts, addr,
                  DoubleAdd(GetOr(m.buysClaimedCounts, addr, Small(0)), log.buysClaimed)),
              Put(m.tokensClaimed, addr,
                  BigAdd(GetOr(m.tokensClaimed, addr, BigZero), log.tokensPaid)))

RECURSIVE Union4(_, _)
\* new Set([...a, ...b, ...]): the keys in order of first appearance.
Union4(seen, ks) ==
    IF ks = <<>> THEN seen
    ELSE IF \E i \in 1..Len(seen) : seen[i] = Head(ks) THEN Union4(seen, Tail(ks))
    ELSE Union4(Append(seen, Head(ks)), Tail(ks))

KeySeq(m) == [i \in 1..Len(m) |-> m[i].wallet]

\* The merge of the four Maps into the rows of the CSV file.
MergeLines(bc, m) ==
    LET allWallets == Union4(<<>>, KeySeq(bc) \o KeySeq(m.claimTxCounts)
                                   \o KeySeq(m.buysClaimedCounts) \o KeySeq(m.tokensClaimed))
    IN [i \in 1..Len(allWallets) |->
          [wallet |-> allWallets[i],
           totalBuys |-> GetOr(bc, allWallets[i], 0),
           totalClaimTxs |-> GetOr(m.claimTxCounts, allWallets[i], 0),
           totalBuysClaimed |-> GetOr(m.buysClaimedCounts, allWallets[i], Small(0)),
           tokensRaw |-> BigToString(GetOr(m.tokensClaimed, allWallets[i], BigZero)),
           tokensFormatted |->
               FormatUnits(GetOr(m.tokensClaimed, allWallets[i], BigZero), TBAG_DECIMALS)]]

\* ---- part_001
\* iface.parseLog(log) throws: a topic or a data word is missing.
ParseLogThrows(log) ==
    \/ Len(log.topics) < 2
    \/ log.topics[2].len < 66
    \/ log.dataLen < 128

NoEntry == [buys |-> 0, claimedBuys |-> Small(0)]

\* The body of the loop for one log that parsed and whose field fits.
StatsStep(st, log) ==
    LET user == GetAddress(log.topics[2])
        entry == GetOr(st, user, NoEntry)
    IN IF log.topics[1] = BUY_TOPIC
         THEN Put(st, user, [entry EXCEPT !.buys = @ + 1])
       ELSE Put(st, user,
                [entry EXCEPT !.claimedBuys = DoubleAdd(@, log.buysClaimed)])

\* buysClaimedBn.toNumber() throws outside any try: main() rejects.
StatsAborts(log) ==
    /\ ~ParseLogThrows(log)
    /\ log.topics[1] = CLAIM_TOPIC
    /\ ToNumberThrows(log.buysClaimed)

RECURSIVE InsertByStat(_, _)
InsertByStat(sorted, e) ==
    IF sorted = <<>> THEN <<e>>
    ELSE IF Head(sorted).val.buys >= e.val.buys
      THEN <<Head(sorted)>> \o InsertByStat(Tail(sorted), e)
    ELSE <<e>> \o sorted

RECURSIVE SortStats(_)
\* .sort((a, b) => b[1].buys - a[1].buys): descending and stable.
SortStats(st) ==
    IF st = <<>> THEN <<>>
    ELSE InsertByStat(SortStats(SubSeq(st, 1, Len(st) - 1)), st[Len(st)])

\* ---- export-wallet-stats.ts
CLAIM_ALL_TOPIC == "ClaimAll(address,uint256,uint256)"

\* A ClaimAll log, the event export-wallet-stats.ts filters on.
ClaimAllLog(topic) ==
    [topics |-> <<CLAIM_ALL_TOPIC, topic>>, dataLen |-> 128,
     buysClaimed |-> Small(1), tokensPaid |-> Big(0, 0, 7)]

NoCounts == [buys |-> 0, claims |-> 0]

\* The body of either loop for one log that parsed: prev.buys += 1 or
\* prev.claims += 1 on the entry of parsed.args.user.
WalletStatsStep(st, log, field) ==
    LET user == GetAddress(log.topics[2])
        prev == GetOr(st, user, NoCounts)
    IN IF field = "buys" THEN Put(st, user, [prev EXCEPT !.buys = @ + 1])
       ELSE Put(st, user, [prev EXCEPT !.claims = @ + 1])

RECURSIVE WalletStatsLoop(_, _, _)
\* for (const log of logs) { ... } inside the try: a parseLog that throws
\* ends the loop, the entries written before it stay.
WalletStatsLoop(st, logs, field) ==
    IF logs = <<>> THEN st
    ELSE IF ParseLogThrows(Head(logs)) THEN st
    ELSE WalletStatsLoop(WalletStatsStep(st, Head(logs), field), Tail(logs), field)

\* ---- the block windows
FROM_BLOCK == 26505044
DEPLOY_BLOCK == 26505044
CJS_BLOCK_CHUNK == 5000
BLOCK_CHUNK == 30000

StartBlock(scr) == IF scr = "wallet_stats" THEN DEPLOY_BLOCK ELSE FROM_BLOCK
BlockChunkOf(scr) == IF scr = "cjs" THEN CJS_BLOCK_CHUNK ELSE BLOCK_CHUNK

\* const toBlock = Math.min(...)
ToBlock(scr, from) ==
    IF scr = "cjs" THEN Min(from + chunk - 1, latestBlock)
    ELSE Min(from + chunk, latestBlock)

\* Mutant of NextFrom: every script steps by the chunk size.
NextFromByChunk(scr, from) == from + chunk

\* The loop variable after one window: fromBlock += BLOCK_CHUNK,
\* fromBlock += BLOCK_CHUNK + 1, fromBlock = toBlock + 1.
NextFrom(scr, from) ==
    IF scr = "cjs" THEN from + chunk
    ELSE IF scr = "part_001" THEN from + chunk + 1
    ELSE ToBlock(scr, from) + 1

\* The log evlog[i] was emitted in block BlockOf(i).
BlockOf(i) == FROM_BLOCK + i - 1

\* provider.getLogs({fromBlock, toBlock, topics: [sigs]})
LogsOfWindow(from, to, sigs) ==
    GetLogs(SubSeq(evlog, Max(from - FROM_BLOCK + 1, 1), Min(to - FROM_BLOCK + 1, Len(evlog))),
            sigs)

\* The getLogs request for the window that starts at from.
Query(sigs, from) == [topics |-> sigs, fromBlock |-> from, toBlock |-> ToBlock(script, from)]

\* The requests issued when the loop is entered with fromBlock = from: none
\* when the loop condition fails.
Ask(sigs, from) ==
    IF from <= latestBlock THEN Append(queried, Query(sigs, from)) ELSE queried

\* The logs of the current window, as the awaited getLogs returned them.
WindowLogs(sigs) == LogsOfWindow(fromBlock, ToBlock(script, fromBlock), sigs)

\* The topic filter of the first request of a script.
FirstFilter(scr) == IF scr = "part_001" THEN {BUY_TOPIC, CLAIM_TOPIC} ELSE {BUY_TOPIC}

\* ---- the scans
\* The logs of the whole chain under each filter.
BuyLogs == GetLogs(evlog, {BUY_TOPIC})
ClaimLogs == GetLogs(evlog, {CLAIM_TOPIC})
BothLogs == GetLogs(evlog, {BUY_TOPIC, CLAIM_TOPIC})

\* provider.getBlockNumber() resolves; the first loop is entered.
StartScan ==
    /\ pass = "start"
    /\ pass' = IF script = "part_001" THEN "both" ELSE "buy"
    /\ fromBlock' = StartBlock(script)
    /\ queried' = Ask(FirstFilter(script), StartBlock(script))
    /\ pos' = 0
    /\ UNCHANGED <<script, evlog, chunk, latestBlock, scanFaults, buyCounts, claimTxCounts,
                   buysClaimedCounts, tokensClaimed, stats, lines>>
    /\ UNCHANGED <<fetchVars, cacheVars, poolVars, pageVars>>

BuyScanStep ==
    /\ script = "cjs" /\ pass = "buy" /\ fromBlock <= latestBlock
    /\ pos < Len(WindowLogs({BUY_TOPIC}))
    /\ buyCounts' = BuyLogStep(buyCounts, WindowLogs({BUY_TOPIC})[pos + 1])
    /\ pos' = pos + 1
    /\ UNCHANGED <<script, evlog, chunk, latestBlock, fromBlock, queried, scanFaults, pass,
                   claimTxCounts, buysClaimedCounts, tokensClaimed, stats, lines>>
    /\ UNCHANGED <<fetchVars, cacheVars, poolVars, pageVars>>

\* The logs of the window are done: the next window is asked for, if any.
BuyWindowEnd ==
    /\ script = "cjs" /\ pass = "buy" /\ fromBlock <= latestBlock
    /\ pos = Len(WindowLogs({BUY_TOPIC}))
    /\ fromBlock' = NextFrom(script, fromBlock)
    /\ queried' = Ask({BUY_TOPIC}, NextFrom(script, fromBlock))
    /\ pos' = 0
    /\ UNCHANGED <<script, evlog, chunk, latestBlock, scanFaults, pass, buyCounts,
                   claimTxCounts, buysClaimedCounts, tokensClaimed, stats, lines>>
    /\ UNCHANGED <<fetchVars, cacheVars, poolVars, pageVars>>

\* The Buy loop is left and the Claim loop entered.
BuyScanEnd ==
    /\ script = "cjs" /\ pass = "buy" /\ fromBlock > latestBlock
    /\ pass' = "claim"
    /\ fromBlock' = FROM_BLOCK
    /\ queried' = Ask({CLAIM_TOPIC}, FROM_BLOCK)
    /\ pos' = 0
    /\ UNCHANGED <<script, evlog, chunk, latestBlock, scanFaults, buyCounts, claimTxCounts,
                   buysClaimedCounts, tokensClaimed, stats, lines>>
    /\ UNCHANGED <<fetchVars, cacheVars, poolVars, pageVars>>

ClaimScanStep ==
    /\ script = "cjs" /\ pass = "claim" /\ fromBlock <= latestBlock
    /\ pos < Len(WindowLogs({CLAIM_TOPIC}))
    /\ LET m == ClaimLogStep(ClaimMaps(claimTxCounts, buysClaimedCounts, tokensClaimed),
                             WindowLogs({CLAIM_TOPIC})[pos + 1])
       IN /\ claimTxCounts' = m.claimTxCounts
          /\ buysClaimedCounts' = m.buysClaimedCounts
          /\ tokensClaimed' = m.tokensClaimed
    /\ pos' = pos + 1
    /\ UNCHANGED <<script, evlog, chunk, latestBlock, fromBlock, queried, scanFaults, pass,
                   buyCounts, stats, lines>>
    /\ UNCHANGED <<fetchVars, cacheVars, poolVars, pageVars>>

ClaimWindowEnd ==
    /\ script = "cjs" /\ pass = "claim" /\ fromBlock <= latestBlock
    /\ pos = Len(WindowLogs({CLAIM_TOPIC}))
    /\ fromBlock' = NextFrom(script, fromBlock)
    /\ queried' = Ask({CLAIM_TOPIC}, NextFrom(script, fromBlock))
    /\ pos' = 0
    /\ UNCHANGED <<script, evlog, chunk, latestBlock, scanFaults, pass, buyCounts,
                   claimTxCounts, buysClaimedCounts, tokensClaimed, stats, lines>>
    /\ UNCHANGED <<fetchVars, cacheVars, poolVars, pageVars>>

\* The Claim loop is left: the Maps are merged and the file is written.
ClaimScanEnd ==
    /\ script = "cjs" /\ pass = "claim" /\ fromBlock > latestBlock
    /\ pass' = "done"
    /\ lines' = MergeLines(buyCounts,
                           ClaimMaps(claimTxCounts, buysClaimedCounts, tokensClaimed))
    /\ UNCHANGED <<script, evlog, chunk, latestBlock, fromBlock, queried, scanFaults, pos,
                   buyCounts, claimTxCounts, buysClaimedCounts, tokensClaimed, stats>>
    /\ UNCHANGED <<fetchVars, cacheVars, poolVars, pageVars>>

StatsScanStep ==
    /\ script = "part_001" /\ pass = "both" /\ fromBlock <= latestBlock
    /\ pos < Len(WindowLogs({BUY_TOPIC, CLAIM_TOPIC}))
    /\ LET log == WindowLogs({BUY_TOPIC, CLAIM_TOPIC})[pos + 1]
       IN IF ParseLogThrows(log) THEN UNCHANGED <<stats, pass>>
          ELSE IF StatsAborts(log) THEN pass' = "aborted" /\ UNCHANGED stats
          ELSE stats' = StatsStep(stats, log) /\ UNCHANGED pass
    /\ pos' = pos + 1
    /\ UNCHANGED <<script, evlog, chunk, latestBlock, fromBlock, queried, scanFaults,
                   buyCounts, claimTxCounts, buysClaimedCounts, tokensClaimed, lines>>
    /\ UNCHANGED <<fetchVars, cacheVars, poolVars, pageVars>>

StatsWindowEnd ==
    /\ script = "part_001" /\ pass = "both" /\ fromBlock <= latestBlock
    /\ pos = Len(WindowLogs({BUY_TOPIC, CLAIM_TOPIC}))
    /\ fromBlock' = NextFrom(script, fromBlock)
    /\ queried' = Ask({BUY_TOPIC, CLAIM_TOPIC}, NextFrom(script, fromBlock))
    /\ pos' = 0
    /\ UNCHANGED <<script, evlog, chunk, latestBlock, scanFaults, pass, buyCounts,
                   claimTxCounts, buysClaimedCounts, tokensClaimed, stats, lines>>
    /\ UNCHANGED <<fetchVars, cacheVars, poolVars, pageVars>>

\* The loop is left: the entries are sorted and the file is written.
StatsScanEnd ==
    /\ script = "part_001" /\ pass = "both" /\ fromBlock > latestBlock
    /\ pass' = "done"
    /\ lines' = SortStats(stats)
    /\ UNCHANGED <<script, evlog, chunk, latestBlock, fromBlock, queried, scanFaults, pos,
                   buyCounts, claimTxCounts, buysClaimedCounts, tokensClaimed, stats>>
    /\ UNCHANGED <<fetchVars, cacheVars, poolVars, pageVars>>

\* export-wallet-stats.ts: the Buy request of the window resolves, its logs
\* are counted and the Claim request of the same window is issued.
WalletBuyLogs ==
    /\ script = "wallet_stats" /\ pass = "buy" /\ fromBlock <= latestBlock
    /\ stats' = WalletStatsLoop(stats, WindowLogs({BUY_TOPIC}), "buys")
    /\ pass' = "claim"
    /\ queried' = Append(queried, Query({CLAIM_ALL_TOPIC}, fromBlock))
    /\ UNCHANGED <<script, evlog, chunk, latestBlock, fromBlock, scanFaults, pos,
                   buyCounts, claimTxCounts, buysClaimedCounts, tokensClaimed, lines>>
    /\ UNCHANGED <<fetchVars, cacheVars, poolVars, pageVars>>

\* The Claim request of the window resolves, its logs are counted and the
\* loop goes on with fromBlock = toBlock + 1.
WalletClaimLogs ==
    /\ script = "wallet_stats" /\ pass = "claim"
    /\ stats' = WalletStatsLoop(stats, WindowLogs({CLAIM_ALL_TOPIC}), "claims")
    /\ pass' = "buy"
    /\ fromBlock' = NextFrom(script, fromBlock)
    /\ queried' = Ask({BUY_TOPIC}, NextFrom(script, fromBlock))
    /\ UNCHANGED <<script, evlog, chunk, latestBlock, scanFaults, pos,
                   buyCounts, claimTxCounts, buysClaimedCounts, tokensClaimed, lines>>
    /\ UNCHANGED <<fetchVars, cacheVars, poolVars, pageVars>>

\* The loop is left: the file is written from the Map's entries.
WalletScanEnd ==
    /\ script = "wallet_stats" /\ pass = "buy" /\ fromBlock > latestBlock
    /\ pass' = "done"
    /\ lines' = stats
    /\ UNCHANGED <<script, evlog, chunk, latestBlock, fromBlock, queried, scanFaults, pos,
                   buyCounts, claimTxCounts, buysClaimedCounts, tokensClaimed, stats>>
    /\ UNCHANGED <<fetchVars, cacheVars, poolVars, pageVars>>

\* The getLogs request awaited rejects. export-wallet-stats.ts awaits it in a
\* try whose catch logs the error: the scan goes on with the next request.
\* The other two scripts await it outside any try: main() rejects.
\* provider.getBlockNumber() rejects: main() rejects before any getLogs
\* request, main().catch logs the error and the process exits with status 1;
\* no file is written.
GetBlockNumberRejects ==
    /\ pass = "start"
    /\ pass' = "failed"
    /\ UNCHANGED <<script, evlog, chunk, latestBlock, fromBlock, queried, scanFaults, pos,
                   buyCounts, claimTxCounts, buysClaimedCounts, tokensClaimed, stats, lines>>
    /\ UNCHANGED <<fetchVars, cacheVars, poolVars, pageVars>>

GetLogsRejects ==
    /\ pass \in {"buy", "claim", "both"} /\ fromBlock <= latestBlock
    /\ pos = 0
    /\ scanFaults < MaxFaults
    /\ scanFaults' = scanFaults + 1
    /\ IF script # "wallet_stats"
         THEN /\ pass' = "failed"
              /\ UNCHANGED <<fromBlock, queried>>
       ELSE IF pass = "buy"
         THEN /\ pass' = "claim"
              /\ queried' = Append(queried, Query({CLAIM_ALL_TOPIC}, fromBlock))
              /\ UNCHANGED fromBlock
       ELSE /\ pass' = "buy"
            /\ fromBlock' = NextFrom(script, fromBlock)
            /\ queried' = Ask({BUY_TOPIC}, NextFrom(script, fromBlock))
    /\ UNCHANGED <<script, evlog, chunk, latestBlock, pos, buyCounts, claimTxCounts,
                   buysClaimedCounts, tokensClaimed, stats, lines>>
    /\ UNCHANGED <<fetchVars, cacheVars, poolVars, pageVars>>

Chains == UNION {[1..n -> SampleLogs] : n \in 0..MaxLogs}

\* The state of a script when main() is called.
ScanStart ==
    /\ FetchIdle /\ CacheIdle /\ PoolIdle /\ PageIdle
    /\ chainLogs = [b \in Blocks |-> 0]
    /\ fromBlock = 0
    /\ queried = <<>>
    /\ scanFaults = 0
    /\ pass = "start"
    /\ pos = 0
    /\ buyCounts = NoStats
    /\ claimTxCounts = NoStats
    /\ buysClaimedCounts = NoStats
    /\ tokensClaimed = NoStats
    /\ stats = NoStats
    /\ lines = <<>>

\* The aggregating scripts with their own chunk sizes, on every chain of up
\* to MaxLogs sample logs.
FoldInit ==
    /\ ScanStart
    /\ script \in {"cjs", "part_001"}
    /\ evlog \in Chains
    /\ chunk = BlockChunkOf(script)
    /\ latestBlock = BlockOf(MaxLogs)

FoldNext ==
    \/ StartScan
    \/ GetBlockNumberRejects
    \/ BuyScanStep
    \/ BuyWindowEnd
    \/ BuyScanEnd
    \/ ClaimScanStep
    \/ ClaimWindowEnd
    \/ ClaimScanEnd
    \/ StatsScanStep
    \/ StatsWindowEnd
    \/ StatsScanEnd

SpecFold == FoldInit /\ [][FoldNext]_vars

\* ---- the scans over small windows with a provider that may fail
MaxChunk == 2

ScanSamples ==
    { BuyLog(AddressTopic("0xAa", "lower")),
      BuyLog(AddressTopic("0xBb", "lower")),
      ClaimLog(AddressTopic("0xAa", "lower"), 128, Small(1), Big(0, 0, 7)),
      ClaimLog(AddressTopic("0xAa", "lower"), 128, MAX_SAFE, Big(1, 5 * 10^8, 0)),
      ClaimAllLog(AddressTopic("0xAa", "lower")),
      BuyLog([len |-> 42, acct |-> "0xBb", form |-> "lower"]) }

ScanChains == UNION {[1..n -> ScanSamples] : n \in 0..MaxLogs}

\* Every script, every chunk size up to MaxChunk, every chain of up to
\* MaxLogs logs followed by blocks without logs.
ScanInit ==
    /\ ScanStart
    /\ script \in {"cjs", "part_001", "wallet_stats"}
    /\ evlog \in ScanChains
    /\ chunk \in 1..MaxChunk
    /\ latestBlock \in BlockOf(Max(Len(evlog), 1))..BlockOf(MaxLogs)

ScanNext ==
    \/ FoldNext
    \/ WalletBuyLogs
    \/ WalletClaimLogs
    \/ WalletScanEnd
    \/ GetLogsRejects

SpecScan == ScanInit /\ [][ScanNext]_vars

\* ------------------------------------------- claims on the aggregation
\* A log every check of both scripts accepts.
WellFormed(log) ==
    /\ Len(log.topics) = 2
    /\ log.topics[2].len = 66
    /\ ~GetAddressThrows(log.topics[2])
    /\ log.dataLen = 128
    /\ ~ToNumberThrows(log.buysClaimed)

AllWellFormed == \A i \in 1..Len(evlog) : WellFormed(evlog[i])

RECURSIVE FoldBuys(_, _)
FoldBuys(counts, logs) ==
    IF logs = <<>> THEN counts ELSE FoldBuys(BuyLogStep(counts, Head(logs)), Tail(logs))

RECURSIVE FoldClaims(_, _)
FoldClaims(m, logs) ==
    IF logs = <<>> THEN m ELSE FoldClaims(ClaimLogStep(m, Head(logs)), Tail(logs))

RECURSIVE FoldStats(_, _)
FoldStats(st, logs) ==
    IF logs = <<>> THEN st ELSE FoldStats(StatsStep(st, Head(logs)), Tail(logs))

\* wallet -> <<buy count, claim tx count, claimed units, claimed amount>>
CjsMapping(bc, m) ==
    [w \in Keys(bc) \cup Keys(m.claimTxCounts) \cup Keys(m.buysClaimedCounts)
             \cup Keys(m.tokensClaimed) |->
       <<GetOr(bc, w, 0), GetOr(m.claimTxCounts, w, 0),
         GetOr(m.buysClaimedCounts, w, Small(0)), GetOr(m.tokensClaimed, w, BigZero)>>]

\* wallet -> <<buy count, claimed units>>
StatsMapping(st) == [w \in Keys(st) |-> <<At(st, w).val.buys, At(st, w).val.claimedBuys>>]

\* The mapping the script scr builds from the well-formed logs.
AggregateOf(scr, logs) ==
    IF scr = "cjs"
      THEN CjsMapping(FoldBuys(<<>>, GetLogs(logs, {BUY_TOPIC})),
                      FoldClaims(ClaimMaps(<<>>, <<>>, <<>>), GetLogs(logs, {CLAIM_TOPIC})))
    ELSE StatsMapping(FoldStats(<<>>, logs))

\* The mapping the finished run holds.
Aggregated ==
    IF script = "cjs"
      THEN CjsMapping(buyCounts, ClaimMaps(claimTxCounts, buysClaimedCounts, tokensClaimed))
    ELSE StatsMapping(stats)

Orders(n) == {p \in [1..n -> 1..n] : \A i, j \in 1..n : p[i] = p[j] => i = j}
Permuted(logs, p) == [i \in 1..Len(logs) |-> logs[p[i]]]

\* C5: once a run over well-formed Buy and Claim events has finished, the
\* mapping it holds is the one every permutation of the same events gives.
C5_AggregationCommutes ==
    (pass = "done" /\ AllWellFormed) =>
        \A p \in Orders(Len(evlog)) :
            AggregateOf(script, Permuted(evlog, p)) = Aggregated

RECURSIVE SumUnits(_, _)
\* The exact integer sum of buysClaimed over the Claim logs of wallet w.
SumUnits(logs, w) ==
    IF logs = <<>> THEN Small(0)
    ELSE IF Head(logs).topics[1] = CLAIM_TOPIC /\ Head(logs).topics[2].acct = w
      THEN NumAdd(Head(logs).buysClaimed, SumUnits(Tail(logs), w))
    ELSE SumUnits(Tail(logs), w)

RECURSIVE SumTokens(_, _)
\* The exact integer sum of tokensPaid over the Claim logs of wallet w.
SumTokens(logs, w) ==
    IF logs = <<>> THEN BigZero
    ELSE IF Head(logs).topics[1] = CLAIM_TOPIC /\ Head(logs).topics[2].acct = w
      THEN BigAdd(Head(logs).tokensPaid, SumTokens(Tail(logs), w))
    ELSE SumTokens(Tail(logs), w)

EventsOf(logs, sig, w) ==
    Cardinality({i \in 1..Len(logs) : logs[i].topics[1] = sig /\ logs[i].topics[2].acct = w})

\* C6: once export-buys-and-claims.cjs has aggregated well-formed events,
\* each wallet's buy count is its number of Buy events, its claim tx count
\* its number of Claim events, its claimed units the sum of buysClaimed and
\* its claimed amount the exact sum of tokensPaid over its Claim events.
C6_FoldEffect ==
    (script = "cjs" /\ pass = "done" /\ AllWellFormed) =>
        \A i \in 1..Len(Wallets) :
            LET w == Wallets[i]
            IN /\ GetOr(buyCounts, GetAddress(AddressTopic(w, "lower")), 0) = EventsOf(evlog, BUY_TOPIC, w)
               /\ GetOr(claimTxCounts, GetAddress(AddressTopic(w, "lower")), 0) = EventsOf(evlog, CLAIM_TOPIC, w)
               /\ GetOr(buysClaimedCounts, GetAddress(AddressTopic(w, "lower")), Small(0)) = SumUnits(evlog, w)
               /\ GetOr(tokensClaimed, GetAddress(AddressTopic(w, "lower")), BigZero) = SumTokens(evlog, w)

\* The same, for totals that stay within 53 bits.
C6_FoldEffectSafe ==
    (script = "cjs" /\ pass = "done" /\ AllWellFormed
       /\ \A i \in 1..Len(Wallets) : ~ToNumberThrows(SumUnits(evlog, Wallets[i]))) =>
        \A i \in 1..Len(Wallets) :
            LET w == Wallets[i]
            IN /\ GetOr(buyCounts, GetAddress(AddressTopic(w, "lower")), 0) = EventsOf(evlog, BUY_TOPIC, w)
               /\ GetOr(claimTxCounts, GetAddress(AddressTopic(w, "lower")), 0) = EventsOf(evlog, CLAIM_TOPIC, w)
               /\ GetOr(buysClaimedCounts, GetAddress(AddressTopic(w, "lower")), Small(0)) = SumUnits(evlog, w)
               /\ GetOr(tokensClaimed, GetAddress(AddressTopic(w, "lower")), BigZero) = SumTokens(evlog, w)

\* The logs of the chain that are well-formed, in chain order.
WellFormedOnly(logs) == SelectSeq(logs, WellFormed)

\* C13: no scan is ever aborted, and a finished scan holds exactly what the
\* well-formed logs of the chain aggregate to: every malformed log was
\* skipped and every well-formed one counted.
C13_MalformedNeverAborts ==
    /\ pass # "aborted"
    /\ pass = "done" => Aggregated = AggregateOf(script, WellFormedOnly(evlog))

\* The same for export-buys-and-claims.cjs alone, whose checks and try/catch
\* enclose every conversion.
C13_CjsSkipsMalformed ==
    script = "cjs" =>
        /\ pass # "aborted"
        /\ pass = "done" => Aggregated = AggregateOf(script, WellFormedOnly(evlog))

\* No two keys of the Map m name the same account.
SameAccountOnce(m) ==
    \A i, j \in 1..Len(m) : m[i].wallet.acct = m[j].wallet.acct => i = j

\* The Buy logs of the chain that name account a in any accepted casing.
NamedBuys(a) ==
    Cardinality({i \in 1..Len(BuyLogs) :
                    /\ TopicUsable(BuyLogs[i])
                    /\ ~GetAddressThrows(BuyLogs[i].topics[2])
                    /\ BuyLogs[i].topics[2].acct = a})

\* C14: in every state of the aggregation no Map holds two keys for one
\* account, and the Buy events naming an account, in whatever casing, are all
\* counted under its one key, by export-buys-and-claims.cjs and by the
\* counting loop of fetchLeaderboardFromChain over the same logs.
C14_OneKeyPerAccount ==
    /\ SameAccountOnce(buyCounts)
    /\ SameAccountOnce(claimTxCounts)
    /\ SameAccountOnce(buysClaimedCounts)
    /\ SameAccountOnce(tokensClaimed)
    /\ SameAccountOnce(CountBuys(<<>>, BuyLogs))
    /\ \A i \in 1..Len(Wallets) :
         LET key == GetAddress(AddressTopic(Wallets[i], "upper"))
         IN /\ MapGet(CountBuys(<<>>, BuyLogs), key) = NamedBuys(Wallets[i])
            /\ (script = "cjs" /\ pass \in {"claim", "done"}) =>
                  GetOr(buyCounts, key, 0) = NamedBuys(Wallets[i])

\* C14 witness: the Buy scan has counted two events that name one account in
\* two casings.
C14_Witness ==
    /\ script = "cjs"
    /\ pass = "done"
    /\ \E i, j \in 1..Len(BuyLogs) :
         /\ TopicUsable(BuyLogs[i]) /\ TopicUsable(BuyLogs[j])
         /\ BuyLogs[i].topics[2].acct = BuyLogs[j].topics[2].acct
         /\ BuyLogs[i].topics[2].form = "lower"
         /\ BuyLogs[j].topics[2].form = "upper"
    /\ \E k \in 1..Len(buyCounts) : buyCounts[k].val >= 2

\* The place of entry x in the sequence src.
PlaceIn(src, x) == CHOOSE i \in 1..Len(src) : src[i] = x

\* out lists entries of src by descending buys (given as the sequence keys,
\* keys[i] the buys of src[i]), entries with equal buys in their order in src.
SortedStable(out, src, keys) ==
    /\ \A i \in 1..Len(out) : \E k \in 1..Len(src) : src[k] = out[i]
    /\ \A i, j \in 1..Len(out) :
         i < j =>
            LET a == PlaceIn(src, out[i])
                b == PlaceIn(src, out[j])
            IN \/ keys[a] > keys[b]
               \/ (keys[a] = keys[b] /\ a < b)

\* out leaves out no entry of src with more buys than one it holds.
KeepsLargest(out, src, keys) ==
    \A k \in 1..Len(src) :
        (\A i \in 1..Len(out) : out[i] # src[k]) =>
            \A i \in 1..Len(out) : keys[PlaceIn(src, out[i])] >= keys[k]


\* The Map fetchLeaderboardFromChain builds from the Buy logs of the chain.
RouteCounts == CountBuys(<<>>, BuyLogs)

\* C19: the rows of the leaderboard, for every limit L, are the min(L, number
\* of wallets) wallets with the most buys, in descending order of buys and
\* ties in insertion order; the rows part_001 writes are all its wallets in
\* that same order.
C19_ExporterOrdering ==
    /\ \A L \in 0..MaxLimit :
         LET counts == RouteCounts
             keys == [k \in 1..Len(counts) |-> counts[k].totalBuys]
             out == Slice(SortByBuys(counts), L)
         IN /\ Len(out) = Min(L, Len(counts))
            /\ SortedStable(out, counts, keys)
            /\ KeepsLargest(out, counts, keys)
    /\ (script = "part_001" /\ pass = "done") =>
         /\ Len(lines) = Len(stats)
         /\ SortedStable(lines, stats, [k \in 1..Len(stats) |-> stats[k].val.buys])

\* C19 witness: part_001 wrote two wallets of which the second seen has more
\* buys, and a leaderboard limit of one leaves a wallet out.
C19_Witness ==
    /\ script = "part_001"
    /\ pass = "done"
    /\ Len(stats) = 2
    /\ stats[2].val.buys > stats[1].val.buys
    /\ lines[1] = stats[2]
    /\ Len(RouteCounts) = 2
    /\ Len(Slice(SortByBuys(RouteCounts), 1)) = 1

\* ------------------------------------------ claims on the CSV amounts
\* acc * 10 + d on an amount
BigTimes10Plus(acc, d) ==
    LET t0 == (acc.e0 % 10^8) * 10 + d
        t1 == (acc.e9 % 10^8) * 10 + (acc.e0 \div 10^8)
    IN Big(acc.e18 * 10 + (acc.e9 \div 10^8), t1, t0)

RECURSIVE ParseDecimal(_, _)
\* The integer acc * 10^Len(s) + the integer the decimal digits s denote.
ParseDecimal(acc, s) ==
    IF s = <<>> THEN acc ELSE ParseDecimal(BigTimes10Plus(acc, Head(s)), Tail(s))

RECURSIVE PadEnd(_, _)
PadEnd(s, w) == IF Len(s) >= w THEN s ELSE PadEnd(Append(s, 0), w)

\* C21: in the file export-buys-and-claims.cjs writes, the raw column of
\* every wallet is its claimed amount as an exact decimal integer, and the
\* scaled column is that amount over 10^18 exactly: the digits before the
\* point are amount div 10^18, the digits after it, read as eighteen
\* decimal places, are amount mod 10^18, and none of them is rounded off.
C21_ExactDecimalScaling ==
    (script = "cjs" /\ pass = "done") =>
        \A i \in 1..Len(lines) :
            LET amount == GetOr(tokensClaimed, lines[i].wallet, BigZero)
                text == lines[i].tokensFormatted
            IN /\ ParseDecimal(BigZero, lines[i].tokensRaw) = amount
               /\ Len(lines[i].tokensRaw) = 1 \/ lines[i].tokensRaw[1] # 0
               /\ Len(text.fraction) \in 1..TBAG_DECIMALS
               /\ ParseDecimal(BigZero, text.whole \o PadEnd(text.fraction, TBAG_DECIMALS))
                      = amount
               /\ ParseDecimal(BigZero, PadEnd(text.fraction, TBAG_DECIMALS)).e18 = 0
               /\ Len(text.fraction) = 1 \/ text.fraction[Len(text.fraction)] # 0

\* A wallet whose claimed amount 1500000000000000000 is written as 1.5.
C21_Witness ==
    /\ script = "cjs" /\ pass = "done"
    /\ \E i \in 1..Len(lines) :
          /\ lines[i].tokensRaw = <<1, 5>> \o [k \in 1..17 |-> 0]
          /\ lines[i].tokensFormatted = [whole |-> <<1>>, fraction |-> <<5>>]

\* ------------------------------------------ claims on the cache, continued
\* C24: every step that changes cachedRows or cachedAt is the end of one
\* successful refresh and sets both, cachedRows to the rows that refresh
\* fetched and cachedAt to the time of that step; and the slot holds rows
\* exactly when it holds a timestamp. No state in between exists for a
\* request to read.
C24_AtomicPublish ==
    /\ [](Truthy(cachedRows) <=> cachedAt # 0)
    /\ [][(cachedRows' # cachedRows \/ cachedAt' # cachedAt) =>
            \E q \in Requests :
                /\ req[q].pc = "getLogs" /\ req'[q].pc = "idle"
                /\ cachedRows' =
                      SomeRows(LeaderboardRows(LogsIn(LEADERBOARD_FROM_BLOCK, req[q].latest)))
                /\ cachedAt' = now
                /\ lastResp'.rows = cachedRows'.rows]_vars

\* A snapshot published at a later time than the first one, holding rows,
\* while another request is inside its own refresh.
C24_Witness ==
    /\ Truthy(cachedRows) /\ Len(cachedRows.rows) > 0
    /\ cachedAt > BootTime
    /\ \E q \in Requests : Refreshing(q)

\* C25: a request that arrives while a refresh is in progress and finds a
\* snapshot does not wait for the provider: whenever two requests are waiting
\* for the provider at once, neither of them found a snapshot on arrival.
C25_NonBlockingReads ==
    \A q, q2 \in Requests :
        (q # q2 /\ Refreshing(q) /\ Refreshing(q2)) =>
            (req[q].found = "empty" /\ req[q2].found = "empty")

\* ------------------------------ claims on fetchLogsRecursive, continued
\* The ranges with a getLogs request outstanding.
InFlight == {r \in DOMAIN calls : calls[r].st = "inflight"}

\* The ranges whose getLogs request returned logs.
Succeeded == {r \in DOMAIN answered : answered[r] = NoError}

\* C26: during one fetchLogsRecursive call no more getLogs requests are in
\* flight than the two of one split.
C26_SubFetchCap ==
    ~RootSettled => Cardinality(InFlight) <= 2

Covers(r, b) == r[1] <= b /\ b <= r[2]

\* C29: while a fetchLogsRecursive call has not failed, every block of its
\* range lies in exactly one sub-range that returned logs or is pending, no
\* such sub-range reaches outside the range, and every range that was split
\* was cut into [from, mid] and [mid + 1, to] with from <= mid < to, both
\* of which were called.
C29_SplitPartition ==
    (calls # <<>> /\ ~RootFailed) =>
        /\ \A b \in rootRange[1]..rootRange[2] :
               Cardinality({r \in Succeeded \cup InFlight : Covers(r, b)}) = 1
        /\ \A r \in Succeeded \cup InFlight :
               rootRange[1] <= r[1] /\ r[1] <= r[2] /\ r[2] <= rootRange[2]
        /\ \A r \in DOMAIN calls :
               (r \in DOMAIN answered /\ IsCapacity(answered[r])) =>
                   LET mid == Mid(r[1], r[2])
                   IN /\ r[1] <= mid /\ mid < r[2]
                      /\ <<r[1], mid>> \in DOMAIN calls
                      /\ <<mid + 1, r[2]>> \in DOMAIN calls

\* A call that split twice, with one sub-range answered and others pending.
C29_Witness ==
    /\ calls # <<>> /\ ~RootSettled
    /\ Cardinality(InFlight) >= 2
    /\ Cardinality(Succeeded) >= 1
    /\ \E r \in DOMAIN calls : calls[r].parent # NoRange /\ calls[r].st = "split"

\* C30: once getLogs on a range of one block has failed with the capacity
\* error, that block has been asked for once as a range of its own, the call
\* for it has thrown that error, no request covering the block is in flight,
\* and the whole fetch has failed.
C30_SingleBlockOverflowFatal ==
    \A r \in DOMAIN answered :
        (r[1] = r[2] /\ IsCapacity(answered[r])) =>
            /\ requests[r] = 1
            /\ calls[r].st = "err"
            /\ calls[r].err = answered[r]
            /\ \A r2 \in InFlight : ~Covers(r2, r[1])
            /\ RootFailed

\* One block of a range that had to be split held more logs than the
\* provider returns: the fetch failed after the split.
C30_Witness ==
    /\ \E r \in DOMAIN answered :
          r[1] = r[2] /\ IsCapacity(answered[r]) /\ calls[r].parent # NoRange
    /\ RootFailed

\* ------------------------------------------------- claims on the scans
\* Some log of the chain under one of the topics sigs names wallet w.
HasEvent(w, sigs) ==
    \E i \in 1..Len(evlog) :
        /\ BlockOf(i) <= latestBlock
        /\ evlog[i].topics[1] \in sigs
        /\ Len(evlog[i].topics) >= 2
        /\ evlog[i].topics[2].len = 66
        /\ GetAddress(evlog[i].topics[2]) = w

CjsKeys ==
    Keys(buyCounts) \cup Keys(claimTxCounts) \cup Keys(buysClaimedCounts)
        \cup Keys(tokensClaimed)

\* C22: at every point of a scan of export-buys-and-claims.cjs or
\* export-wallet-stats.ts, and in the rows written, every wallet present has
\* buy count + claim tx count >= 1 and is named by a log of the scanned
\* range under a topic the script asks for.
C22_NoSynthesizedAccounts ==
    /\ script = "cjs" =>
          /\ \A w \in CjsKeys :
                 /\ GetOr(buyCounts, w, 0) + GetOr(claimTxCounts, w, 0) >= 1
                 /\ HasEvent(w, {BUY_TOPIC, CLAIM_TOPIC})
          /\ \A i \in 1..Len(lines) :
                 /\ lines[i].totalBuys + lines[i].totalClaimTxs >= 1
                 /\ lines[i].wallet \in CjsKeys
    /\ script = "wallet_stats" =>
          /\ \A i \in 1..Len(stats) :
                 /\ stats[i].val.buys + stats[i].val.claims >= 1
                 /\ HasEvent(stats[i].wallet, {BUY_TOPIC, CLAIM_ALL_TOPIC})
          /\ \A i \in 1..Len(lines) :
                 /\ lines[i].val.buys + lines[i].val.claims >= 1
                 /\ lines[i].wallet \in Keys(stats)

\* A file written with a wallet that only claimed, on a chain on which the
\* other account is named by a log that is not accepted.
C22_Witness ==
    /\ script = "cjs" /\ pass = "done"
    /\ \E i \in 1..Len(lines) : lines[i].totalBuys = 0 /\ lines[i].totalClaimTxs >= 1
    /\ \E i \in 1..Len(evlog) : evlog[i].topics[2].acct = "0xBb"
    /\ \A i \in 1..Len(lines) : lines[i].wallet # GetAddress(AddressTopic("0xBb", "lower"))

NumLeq(a, b) == a.hi < b.hi \/ (a.hi = b.hi /\ a.lo <= b.lo)

BigLeq(a, b) ==
    \/ a.e18 < b.e18
    \/ a.e18 = b.e18 /\ a.e9 < b.e9
    \/ a.e18 = b.e18 /\ a.e9 = b.e9 /\ a.e0 <= b.e0

\* Every key of m is a key of m2, with a value that is not smaller.
MapGrows(m, m2, Leq(_, _)) ==
    \A w \in Keys(m) : Has(m2, w) /\ Leq(At(m, w).val, At(m2, w).val)

\* C23: no step of a scan removes a wallet from a Map or lowers its buy
\* count, its claim tx count, its claimed units or its claimed amount.
C23_CounterMonotonicity ==
    [][/\ MapGrows(buyCounts, buyCounts', LAMBDA a, b : a <= b)
       /\ MapGrows(claimTxCounts, claimTxCounts', LAMBDA a, b : a <= b)
       /\ MapGrows(buysClaimedCounts, buysClaimedCounts', NumLeq)
       /\ MapGrows(tokensClaimed, tokensClaimed', BigLeq)
       /\ script = "wallet_stats" =>
             MapGrows(stats, stats', LAMBDA a, b : a.buys <= b.buys /\ a.claims <= b.claims)
       /\ script = "part_001" =>
             MapGrows(stats, stats',
                      LAMBDA a, b : a.buys <= b.buys /\ NumLeq(a.claimedBuys, b.claimedBuys))]_vars

\* A scan in which a wallet's counters have each been raised more than once,
\* the claimed units past 2^53.
C23_Witness ==
    /\ script = "cjs" /\ pass = "claim"
    /\ \E w \in Keys(claimTxCounts) :
          /\ GetOr(claimTxCounts, w, 0) >= 2
          /\ ~NumLeq(GetOr(buysClaimedCounts, w, Small(0)), MAX_SAFE)
          /\ GetOr(buyCounts, w, 0) >= 1

\* The topic filters a script asks every window for.
FiltersOf(scr) ==
    IF scr = "cjs" THEN {{BUY_TOPIC}, {CLAIM_TOPIC}}
    ELSE IF scr = "part_001" THEN {{BUY_TOPIC, CLAIM_TOPIC}}
    ELSE {{BUY_TOPIC}, {CLAIM_ALL_TOPIC}}

InWindow(q, b) == q.fromBlock <= b /\ b <= q.toBlock

\* C27: the windows a script has asked for under one topic filter never
\* share a block and never leave [start, latest], and once the scan is over
\* every block of [start, latest] lies in exactly one window per filter.
C27_WindowCoverage ==
    /\ \A i, j \in 1..Len(queried) :
          (i # j /\ queried[i].topics = queried[j].topics) =>
              (queried[i].toBlock < queried[j].fromBlock
                 \/ queried[j].toBlock < queried[i].fromBlock)
    /\ \A i \in 1..Len(queried) :
          /\ StartBlock(script) <= queried[i].fromBlock
          /\ queried[i].fromBlock <= queried[i].toBlock
          /\ queried[i].toBlock <= latestBlock
          /\ queried[i].topics \in FiltersOf(script)
    /\ pass = "done" =>
          \A f \in FiltersOf(script) :
              \A b \in StartBlock(script)..latestBlock :
                  Cardinality({i \in 1..Len(queried) :
                                  queried[i].topics = f /\ InWindow(queried[i], b)}) = 1

\* A finished scan of several windows per filter, the last one cut short by
\* the latest block.
C27_Witness ==
    /\ pass = "done"
    /\ Len(queried) >= 2 * Cardinality(FiltersOf(script))
    /\ \E i \in 1..Len(queried) :
          /\ queried[i].toBlock = latestBlock
          /\ queried[i].toBlock - queried[i].fromBlock
                < queried[1].toBlock - queried[1].fromBlock

\* C28: export-wallet-stats.ts writes its file only when no getLogs request
\* of the scan was rejected.
C28_ExportCompleteOnFailure ==
    (script = "wallet_stats" /\ pass = "done") => scanFaults = 0

\* ---------------------------------------------- the slot as a state machine
\* Empty, Fresh or Stale: what a request arriving now would find.
SlotState == Found(now)

SlotMoves == {<<"empty", "fresh">>, <<"fresh", "expired">>, <<"expired", "fresh">>}

\* C31: every step that changes the state of the slot is Empty -> Fresh or
\* Stale -> Fresh, made by a refresh that publishes, or Fresh -> Stale, made
\* by the clock alone; and a slot that holds a snapshot holds one ever after.
C31_CacheStateMachine ==
    [][/\ (SlotState' # SlotState) =>
             /\ <<SlotState, SlotState'>> \in SlotMoves
             /\ (SlotState' = "fresh") =>
                    (cachedAt' = now /\ \E q \in Requests :
                                          req[q].pc = "getLogs" /\ req'[q].pc = "idle")
             /\ (SlotState' = "expired") =>
                    (now' > now /\ UNCHANGED <<cachedRows, cachedAt>>)
       /\ Truthy(cachedRows) => Truthy(cachedRows')]_vars

\* A request that found the snapshot expired has published a new one.
C31_Witness ==
    /\ lastResp.found = "expired" /\ lastResp.error = ""
    /\ cachedAt = now /\ cachedAt > BootTime
    /\ SlotState = "fresh"

\* C32: a refresh that fails changes neither cachedRows nor cachedAt, so the
\* slot is in the state it was in; and a request that arrives while the slot
\* is not fresh starts a refresh, whatever failed before.
C32_FailedRefreshLeavesSlot ==
    [][/\ (\E q \in Requests : Refreshing(q) /\ req'[q].pc = "idle" /\ lastResp'.error # "")
            => (UNCHANGED <<cachedRows, cachedAt>> /\ SlotState' = SlotState)
       /\ \A q \in Requests :
             (req[q].pc = "idle" /\ req'[q] # req[q]) =>
                 (~IsFresh(now) /\ req'[q].pc = "getBlockNumber")
       /\ \A q \in Requests :
             (req[q].pc = "idle" /\ lastResp' # lastResp /\ req'[q] = req[q]
                /\ \A q2 \in Requests : req'[q2] = req[q2])
                 => IsFresh(now)]_vars

\* A refresh has failed on a stale snapshot and a request has started the
\* next refresh.
C32_Witness ==
    /\ lastResp.error = STALE_ERROR
    /\ SlotState = "expired"
    /\ \E q \in Requests : req[q].pc = "getBlockNumber" /\ req[q].found = "expired"

RECURSIVE SnapshotBuys(_)
\* The number of Buy logs counted in the rows: on a chain that only grows,
\* rows built up to a later block never count fewer.
SnapshotBuys(rows) ==
    IF rows = <<>> THEN 0 ELSE Head(rows).totalBuys + SnapshotBuys(Tail(rows))

\* C33: no publish replaces the snapshot by one built up to an earlier
\* block: the buys counted in the slot never drop.
C33_NoRegression ==
    [][SnapshotBuys(cachedRows'.rows) >= SnapshotBuys(cachedRows.rows)]_vars

\* C34: once a fetchLogsRecursive call has settled, no getLogs request made
\* for it is in flight.
C34_NoOrphanedSubFetches ==
    RootSettled => InFlight = {}

\* C35: a step of the Claim loop raises a wallet's claim tx count by one and
\* adds the log's units and amount to the same wallet's totals, or leaves
\* the three Maps as they are; it never touches buyCounts, and the three
\* Maps always hold the same wallets.
C35_ClaimAllOrNothing ==
    /\ [](Keys(claimTxCounts) = Keys(buysClaimedCounts)
            /\ Keys(claimTxCounts) = Keys(tokensClaimed))
    /\ [][(script = "cjs" /\ pass = "claim" /\ pos' = pos + 1) =>
            LET log == WindowLogs({CLAIM_TOPIC})[pos + 1]
                counted == {w \in Keys(claimTxCounts') :
                               GetOr(claimTxCounts', w, 0) # GetOr(claimTxCounts, w, 0)}
            IN /\ buyCounts' = buyCounts
               /\ Cardinality(counted) <= 1
               /\ \A w \in counted :
                     /\ GetOr(claimTxCounts', w, 0) = GetOr(claimTxCounts, w, 0) + 1
                     /\ GetOr(buysClaimedCounts', w, Small(0))
                          = DoubleAdd(GetOr(buysClaimedCounts, w, Small(0)), log.buysClaimed)
                     /\ GetOr(tokensClaimed', w, BigZero)
                          = BigAdd(GetOr(tokensClaimed, w, BigZero), log.tokensPaid)
               /\ counted = {} =>
                     UNCHANGED <<claimTxCounts, buysClaimedCounts, tokensClaimed>>
               /\ \A w \in Keys(claimTxCounts') \ counted :
                     /\ GetOr(buysClaimedCounts', w, Small(0)) = GetOr(buysClaimedCounts, w, Small(0))
                     /\ GetOr(tokensClaimed', w, BigZero) = GetOr(tokensClaimed, w, BigZero)]_vars

\* A Claim log with an out-of-range payload was skipped after one that was
\* counted for the same wallet.
C35_Witness ==
    /\ script = "cjs" /\ pass = "done"
    /\ \E i \in 1..Len(evlog) :
          /\ evlog[i].topics[1] = CLAIM_TOPIC /\ Len(evlog[i].topics) = 2
          /\ ToNumberThrows(evlog[i].buysClaimed)
    /\ \E w \in Keys(claimTxCounts) :
          GetOr(claimTxCounts, w, 0) = 1 /\ GetOr(tokensClaimed, w, BigZero) # BigZero

\* ------------------------------------------------ the page (page.tsx)
\* How many clicks, wallet events and failed requests a behaviour holds, and
\* how many of the clicks and wallet events fall while requests are in flight.
MaxEvents == 2
MaxHasty == 1

None == <<>>
Some(x) == <<x>>
NullAddress == "null"
NullMessage == "null"
Accounts == {"0xAa", "0xBb"}

\* A chain id as the wallet reports it: whether the text starts with "0x",
\* and the digits that follow (0..15 each).  The empty text stands for null:
\* `if (chainId)` takes neither.
ChainIdText(hex, digits) == [hex |-> hex, digits |-> digits]
NullChainId == ChainIdText(FALSE, <<>>)

\* The calls of switchToTargetNetwork are told apart by the click that made
\* them.
SwitchIds == 1..MaxEvents
SwitchOwner(i) == "switch" \o ToString(i)

\* Who awaits a call of loadContractData or checkPohStatus and goes on when
\* it returns: executeBuyTx, handleClaimAll, a call of switchToTargetNetwork,
\* or nobody (connectWallet and the handlers of the effect do nothing more).
PohOwners == {"none"} \cup {SwitchOwner(i) : i \in SwitchIds}
Owners == {"buy", "claim"} \cup PohOwners
Stages == {"global", "user"}

\* The contract reads loadContractData sends together and awaits with
\* Promise.all: three for every call (page.tsx 151-156), four more about the
\* address when there is one (page.tsx 163-173).
GlobalReads == {"tbagPerBuy", "maxBuysPerDay", "totalBuysGlobal"}
UserReads == {"totalBuys", "remainingBuysToday", "claimableBuys", "claimableTokens"}
ReadsOfStage(stage) == IF stage = "global" THEN GlobalReads ELSE UserReads

\* A call of loadContractData that waits at one of its two Promise.all:
\* left is the number of its reads whose response has not been delivered;
\* early holds the reads the node evaluated before the contract last
\* changed, each with the value the contract held then, whether their
\* response has been delivered or is still on the way. A read that is not in
\* early reads what the contract holds now.
LoadCall(address, stage, owner) ==
    [address |-> address, stage |-> stage, owner |-> owner,
     left |-> Cardinality(ReadsOfStage(stage)),
     early |-> [r \in GlobalReads \cup UserReads |-> None]]

\* The calls of loadContractData in progress: call -> how many there are.
NoLoads == <<>>
NoPohs == [k \in Accounts \X PohOwners |-> 0]
NoBuy == [pc |-> "idle", wallet |-> NullAddress, load |-> FALSE, board |-> FALSE]
\* connectWallet: the calls that wait for eth_requestAccounts, and those that
\* wait for eth_chainId, by the account they have selected.
NoConnect == [accounts |-> 0, chainId |-> [a \in Accounts |-> 0]]
\* A call of switchToTargetNetwork: where it stands, the walletAddress of the
\* render it was made in, whether it is inside the catch for code 4902, and
\* which of the two calls it awaits together have returned.
NoSwitch ==
    [pc |-> "idle", wallet |-> NullAddress, added |-> FALSE, load |-> FALSE, poh |-> FALSE]
\* handleClaimAll: where it stands, the walletAddress of the render it was
\* made in, expectedBuys, expectedTokens, whether tbagPerBuy was set, and
\* the account that signed.
NoClaim ==
    [pc |-> "idle", wallet |-> NullAddress, buys |-> 0, tokens |-> None,
     priced |-> FALSE, from |-> NullAddress]

\* The page after its first render, before its effects: the useState
\* defaults (page.tsx 62-108), in a browser whose wallet exposes `accounts`
\* on chain `chain`, or that has no wallet.
PageFresh(ethereum, accounts, chain) ==
    [ \* the browser, the wallet and the contract
      ethereum |-> ethereum,        \* whether window.ethereum exists
      provAccounts |-> accounts,    \* the accounts the wallet exposes
      provChain |-> chain,          \* the chain the wallet is on
      bought |-> [a \in Accounts |-> 0],  \* buys recorded since the page loaded
      claimed |-> [a \in Accounts |-> 0], \* buys paid out since the page loaded
      sentTxs |-> <<>>,             \* the buy transactions submitted
      \* the state of the component
      walletAddress |-> NullAddress,
      chainId |-> NullChainId,
      autoConnectEnabled |-> TRUE,
      tbagPerBuy |-> None,
      maxBuysPerDay |-> 0,
      totalBuysGlobal |-> 0,
      yourTotalBuys |-> 0,
      remainingBuysToday |-> None,
      claimableBuys |-> None,
      claimableTokens |-> None,
      isLoadingData |-> FALSE,
      isBuying |-> FALSE,
      isClaiming |-> FALSE,
      errorMessage |-> NullMessage,
      successMessage |-> NullMessage,
      showConfirmModal |-> FALSE,
      isPohVerified |-> None,
      isCheckingPoh |-> FALSE,
      \* the calls in progress
      loads |-> NoLoads,    \* LoadCall -> loadContractData calls
      pohs |-> NoPohs,      \* <<address, owner>> -> checkPohStatus calls
      accountsReqs |-> 0,   \* eth_accounts requests of the effect
      chainReqs |-> 0,      \* eth_chainId requests of the effect
      connect |-> NoConnect,  \* the calls of connectWallet
      switch |-> [i \in SwitchIds |-> NoSwitch],  \* the calls of switchToTargetNetwork
      buy |-> NoBuy,          \* where executeBuyTx stands
      claim |-> NoClaim,      \* where handleClaimAll stands
      buyCalls |-> 0,       \* number of calls of executeBuyTx
      \* the user and the wallet
      events |-> 0,         \* clicks, wallet events and failed requests so far
      hasty |-> 0 ]         \* how many more clicks and wallet events may fall
                            \* while requests of the page are in flight

TARGET_CHAIN_ID_DEC == 59144
NaN == -1

\* parseInt(text, radix): the value of the longest prefix of digits of that
\* radix, NaN when there is none.
RECURSIVE ParsePrefix(_, _, _)
ParsePrefix(digits, radix, acc) ==
    IF digits = <<>> \/ Head(digits) >= radix
    THEN acc
    ELSE ParsePrefix(Tail(digits), radix, acc * radix + Head(digits))

ParseInt(digits, radix) ==
    IF digits = <<>> \/ Head(digits) >= radix THEN NaN ELSE ParsePrefix(digits, radix, 0)

\* numericChainId (null is written NaN: neither equals the target).
NumericChainId(cid) ==
    IF cid = NullChainId THEN NaN
    ELSE IF cid.hex THEN ParseInt(cid.digits, 16) ELSE ParseInt(cid.digits, 10)

IsOnAnyNetwork(cid) == cid # NullChainId

IsOnTargetNetwork(cid) == NumericChainId(cid) = TARGET_CHAIN_ID_DEC

IsBuyDisabled == page.isBuying \/ page.isLoadingData \/ page.isCheckingPoh

IsClaimDisabled == page.isClaiming \/ page.isLoadingData

\* "0xe708", "0x1" and "59144".
SampleChainIds ==
    { ChainIdText(TRUE, <<14, 7, 0, 8>>),
      ChainIdText(TRUE, <<1>>),
      ChainIdText(FALSE, <<5, 9, 1, 4, 4>>) }

\* What the contract and the PoH API hold for the sample accounts.
SampleContract == [tbagPerBuy |-> Big(1, 0, 0), maxBuysPerDay |-> 3]
SampleBuys == [a \in Accounts |-> IF a = "0xAa" THEN 10 ELSE 20]
PohText(a) == IF a = "0xAa" THEN "true" ELSE "false"

ContractUser(a) ==
    LET total == SampleBuys[a] + page.bought[a]
    IN [ totalBuys |-> total,
         remainingBuysToday |-> Max(SampleContract.maxBuysPerDay - page.bought[a], 0),
         claimableBuys |-> total - page.claimed[a],
         claimableTokens |-> Big(total - page.claimed[a], 0, 0) ]

ContractTotalBuys ==
    ContractUser("0xAa").totalBuys + ContractUser("0xBb").totalBuys

\* What a read of the contract answers now.
ContractRead(r, a) ==
    CASE r = "tbagPerBuy" -> SampleContract.tbagPerBuy
      [] r = "maxBuysPerDay" -> SampleContract.maxBuysPerDay
      [] r = "totalBuysGlobal" -> ContractTotalBuys
      [] r = "totalBuys" -> ContractUser(a).totalBuys
      [] r = "remainingBuysToday" -> ContractUser(a).remainingBuysToday
      [] r = "claimableBuys" -> ContractUser(a).claimableBuys
      [] r = "claimableTokens" -> ContractUser(a).claimableTokens

Inc(f, k) == [f EXCEPT ![k] = @ + 1]
Dec(f, k) == [f EXCEPT ![k] = @ - 1]

\* One more, and one fewer, call c among the loads in progress.
Add(loads, c) ==
    IF c \in DOMAIN loads THEN [loads EXCEPT ![c] = @ + 1] ELSE (c :> 1) @@ loads
Remove(loads, c) ==
    IF loads[c] > 1 THEN [loads EXCEPT ![c] = @ - 1]
    ELSE IF DOMAIN loads = {c} THEN NoLoads
    ELSE [d \in DOMAIN loads \ {c} |-> loads[d]]

\* The reads of call c whose response has been delivered, and those the
\* node evaluated before the contract last changed.
Delivered(c) == Cardinality(ReadsOfStage(c.stage)) - c.left
Early(c) == {r \in ReadsOfStage(c.stage) : c.early[r] # None}

\* The reads whose answer neither buy nor claimAll changes.
FixedReads == {"tbagPerBuy", "maxBuysPerDay"}

\* The contract is about to change: the ways call c may stand after it. The
\* node has evaluated every read it has answered and may have evaluated any
\* other: the reads evaluated so far are any set that holds Early(c) and
\* has at least Delivered(c) members. Those evaluated since the last change
\* keep the values the contract holds now. A fixed read answers the same
\* whenever it is evaluated, so it is counted among the evaluated ones.
Overtaken(c) ==
    { [c EXCEPT !.early = [r \in DOMAIN @ |->
                             IF r \in S THEN Some(ContractRead(r, c.address)) ELSE @[r]]] :
        S \in {T \in SUBSET (ReadsOfStage(c.stage) \ Early(c)) :
                 /\ FixedReads \cap ReadsOfStage(c.stage) \subseteq Early(c) \cup T
                 /\ Cardinality(Early(c) \cup T) >= Delivered(c)} }

\* The same for every call in progress.
RECURSIVE OvertakenLoads(_)
OvertakenLoads(loads) ==
    IF DOMAIN loads = {} THEN {NoLoads}
    ELSE LET c == CHOOSE d \in DOMAIN loads : TRUE
         IN {Add(rest, o) : rest \in OvertakenLoads(Remove(loads, c)), o \in Overtaken(c)}

\* Nothing the page has asked for is outstanding.
Quiet ==
    /\ DOMAIN page.loads = {}
    /\ page.pohs = NoPohs
    /\ page.accountsReqs = 0
    /\ page.chainReqs = 0
    /\ page.connect = NoConnect
    /\ \A i \in SwitchIds : page.switch[i] = NoSwitch
    /\ page.buy = NoBuy
    /\ page.claim = NoClaim

\* The user may click, or the wallet announce a change; and the page once
\* that is counted.
CanAct == page.events < MaxEvents /\ (Quiet \/ page.hasty > 0)
Acted == [page EXCEPT !.events = @ + 1, !.hasty = IF Quiet THEN @ ELSE @ - 1]

\* The user may open the buy dialog, which asks nothing of the wallet or the
\* network; and the page once that is counted.
CanClick == Quiet \/ page.hasty > 0
Clicked == [page EXCEPT !.hasty = IF Quiet THEN @ ELSE @ - 1]

\* A request of the page may fail; and the page once that is counted.
CanFail == page.events < MaxEvents
Failed == [page EXCEPT !.events = @ + 1]

\* loadContractData up to its first await, on page state p.
LoadContractData(p, address, owner) ==
    IF p.ethereum
    THEN [p EXCEPT !.errorMessage = NullMessage,
                   !.isLoadingData = TRUE,
                   !.loads = Add(@, LoadCall(address, "global", owner))]
    ELSE [p EXCEPT !.errorMessage = NullMessage,
                   !.isLoadingData = FALSE]

\* checkPohStatus up to its first await, on page state p.
CheckPohStatus(p, address, owner) ==
    [p EXCEPT !.isCheckingPoh = TRUE,
              !.isPohVerified = None,
              !.pohs = Inc(@, <<address, owner>>)]

\* The effect on [walletAddress, autoConnectEnabled]: it runs again after a
\* render in which one of the two has changed (p against the page as it
\* was), asks for the accounts when auto-connect is on, and asks for the
\* chain id.
Effect(p) ==
    LET runs == /\ p.ethereum
                /\ \/ p.walletAddress # page.walletAddress
                   \/ p.autoConnectEnabled # page.autoConnectEnabled
    IN [p EXCEPT !.accountsReqs = @ + (IF runs /\ p.autoConnectEnabled THEN 1 ELSE 0),
                 !.chainReqs = @ + (IF runs THEN 1 ELSE 0)]

SWITCHED == "Switched to Linea."
ADDED_AND_SELECTED == "Linea added and selected."

\* A call that owner awaits has returned (part: "load" or "poh").
\* executeBuyTx runs its finally clause if the leaderboard has returned too,
\* and notes the return if not; handleClaimAll, which awaits nothing else,
\* runs its finally clause; switchToTargetNetwork sets its success message once
\* both calls of its Promise.all have returned.
Joined(p, owner, part) ==
    IF owner = "none" THEN p
    ELSE IF owner = "buy"
    THEN IF p.buy.board
         THEN [p EXCEPT !.isBuying = FALSE, !.buy = NoBuy]
         ELSE [p EXCEPT !.buy.load = TRUE]
    ELSE IF owner = "claim" THEN [p EXCEPT !.isClaiming = FALSE, !.claim = NoClaim]
    ELSE LET i == CHOOSE j \in SwitchIds : SwitchOwner(j) = owner
             call == [p.switch[i] EXCEPT ![part] = TRUE]
         IN IF call.load /\ call.poh
            THEN [p EXCEPT !.switch[i] = NoSwitch,
                           !.successMessage =
                               IF call.added THEN ADDED_AND_SELECTED ELSE SWITCHED]
            ELSE [p EXCEPT !.switch[i] = call]

\* The finally clause of loadContractData; the caller that awaits the load
\* goes on.
LoadReturns(p, owner) == Joined([p EXCEPT !.isLoadingData = FALSE], owner, "load")

\* What the read r of call c answers: what the node evaluated early, or
\* what the contract holds now.
Answer(c, r) == IF c.early[r] # None THEN c.early[r][1] ELSE ContractRead(r, c.address)

\* The calls of loadContractData for address a, awaited by o, that wait
\* at the Promise.all of that stage.
Calls(a, stage, o) ==
    {c \in DOMAIN page.loads : c.address = a /\ c.stage = stage /\ c.owner = o}

\* The response of one of the reads of a Promise.all is delivered while
\* others are still out: the call keeps waiting. The read is one the node
\* evaluated before the contract last changed, or one it evaluates now.
LoadReadOk(a, stage, o) ==
    /\ \E c \in Calls(a, stage, o) :
         /\ c.left > 1
         /\ page' = [page EXCEPT !.loads = Add(Remove(@, c), [c EXCEPT !.left = @ - 1])]
    /\ UNCHANGED <<fetchVars, cacheVars, poolVars, foldVars>>

\* The last of the three global reads is answered: the call sets what each
\* read has answered, then sends the reads about the address or, without
\* one, clears the user's values and returns.
LoadGlobalOk(a, o) ==
    /\ \E c \in Calls(a, "global", o) :
         /\ c.left = 1
         /\ LET p == [page EXCEPT !.loads = Remove(@, c),
                                  !.tbagPerBuy = Some(Answer(c, "tbagPerBuy")),
                                  !.maxBuysPerDay = Answer(c, "maxBuysPerDay"),
                                  !.totalBuysGlobal = Answer(c, "totalBuysGlobal")]
            IN page' = IF a # NullAddress
                       THEN [p EXCEPT !.loads = Add(@, LoadCall(a, "user", o))]
                       ELSE LoadReturns([p EXCEPT !.yourTotalBuys = 0,
                                                  !.remainingBuysToday = None,
                                                  !.claimableBuys = None,
                                                  !.claimableTokens = None], o)
    /\ UNCHANGED <<fetchVars, cacheVars, poolVars, foldVars>>

CONTRACT_DATA_ERROR == "Error loading contract data. Check network & contract address."

\* One of the reads a call waits for is rejected: its Promise.all rejects,
\* the catch sets the error and the finally clause runs; the answers the
\* call had are dropped.
LoadFails(a, stage, o) ==
    /\ CanFail
    /\ \E c \in Calls(a, stage, o) :
         page' = LoadReturns([Failed EXCEPT !.loads = Remove(@, c),
                                            !.errorMessage = CONTRACT_DATA_ERROR], o)
    /\ UNCHANGED <<fetchVars, cacheVars, poolVars, foldVars>>

\* The last of the four reads about the address is answered: the call sets
\* what each read has answered and returns.
LoadUserOk(a, o) ==
    /\ \E c \in Calls(a, "user", o) :
         /\ c.left = 1
         /\ page' = LoadReturns(
                       [page EXCEPT !.loads = Remove(@, c),
                                    !.yourTotalBuys = Answer(c, "totalBuys"),
                                    !.remainingBuysToday = Some(Answer(c, "remainingBuysToday")),
                                    !.claimableBuys = Some(Answer(c, "claimableBuys")),
                                    !.claimableTokens = Some(Answer(c, "claimableTokens"))], o)
    /\ UNCHANGED <<fetchVars, cacheVars, poolVars, foldVars>>

PohOk(a, o) ==
    /\ page.pohs[<<a, o>>] > 0
    /\ page' = Joined([page EXCEPT !.pohs = Dec(@, <<a, o>>),
                                   !.isPohVerified = Some(PohText(a) = "true"),
                                   !.isCheckingPoh = FALSE], o, "poh")
    /\ UNCHANGED <<fetchVars, cacheVars, poolVars, foldVars>>

PohFails(a, o) ==
    /\ page.pohs[<<a, o>>] > 0
    /\ CanFail
    /\ page' = Joined([Failed EXCEPT !.pohs = Dec(@, <<a, o>>),
                                     !.isPohVerified = None,
                                     !.errorMessage = IF @ = NullMessage
                                                      THEN "Could not check Proof of Humanity."
                                                      ELSE @,
                                     !.isCheckingPoh = FALSE], o, "poh")
    /\ UNCHANGED <<fetchVars, cacheVars, poolVars, foldVars>>

\* loadLeaderboardFromApi, awaited by executeBuyTx, returns: with rows or
\* with an error it has caught itself.  If loadContractData has returned
\* too, executeBuyTx runs its finally clause.
LeaderboardReturns ==
    /\ page.buy.pc = "reload"
    /\ ~page.buy.board
    /\ page' = IF page.buy.load
               THEN [page EXCEPT !.isBuying = FALSE, !.buy = NoBuy]
               ELSE [page EXCEPT !.buy.board = TRUE]
    /\ UNCHANGED <<fetchVars, cacheVars, poolVars, foldVars>>

\* connectWallet, called by handlePrimaryAction when no wallet is connected;
\* nothing keeps a second click from calling it while the first call waits.
ConnectWallet ==
    /\ page.walletAddress = NullAddress
    /\ ~IsBuyDisabled
    /\ CanAct
    /\ page' = IF page.ethereum
               THEN [Acted EXCEPT !.successMessage = NullMessage,
                                  !.errorMessage = NullMessage,
                                  !.connect.accounts = @ + 1]
               ELSE [Acted EXCEPT !.successMessage = NullMessage,
                                  !.errorMessage =
                                      "MetaMask not found. Please install it to continue."]
    /\ UNCHANGED <<fetchVars, cacheVars, poolVars, foldVars>>

\* eth_requestAccounts answers with the account the user has approved.
ConnectAccountsOk(a) ==
    /\ page.connect.accounts > 0
    /\ page.provAccounts # <<>> => a = page.provAccounts[1]
    /\ page' = Effect([page EXCEPT !.provAccounts = <<a>>,
                                   !.walletAddress = a,
                                   !.connect.accounts = @ - 1,
                                   !.connect.chainId[a] = @ + 1])
    /\ UNCHANGED <<fetchVars, cacheVars, poolVars, foldVars>>

\* eth_requestAccounts is rejected, or eth_chainId is (a = the account the
\* call has selected): the one catch clause of connectWallet.
ConnectFails(a) ==
    /\ IF a = NullAddress THEN page.connect.accounts > 0 ELSE page.connect.chainId[a] > 0
    /\ page' = [page EXCEPT !.connect.accounts = IF a = NullAddress THEN @ - 1 ELSE @,
                            !.connect.chainId = IF a = NullAddress THEN @ ELSE Dec(@, a),
                            !.errorMessage = "Failed to connect wallet."]
    /\ UNCHANGED <<fetchVars, cacheVars, poolVars, foldVars>>

ConnectChainIdOk(a) ==
    /\ page.connect.chainId[a] > 0
    /\ page' = Effect(CheckPohStatus(LoadContractData(
                  [page EXCEPT !.chainId = page.provChain,
                               !.autoConnectEnabled = TRUE,
                               !.connect.chainId = Dec(@, a)],
                  a, "none"), a, "none"))
    /\ UNCHANGED <<fetchVars, cacheVars, poolVars, foldVars>>

DisconnectWallet ==
    /\ page.walletAddress # NullAddress
    /\ CanAct
    /\ page' = Effect([Acted EXCEPT !.walletAddress = NullAddress,
                                    !.chainId = NullChainId,
                                    !.yourTotalBuys = 0,
                                    !.remainingBuysToday = None,
                                    !.claimableBuys = None,
                                    !.claimableTokens = None,
                                    !.isPohVerified = None,
                                    !.isCheckingPoh = FALSE,
                                    !.errorMessage = NullMessage,
                                    !.successMessage = NullMessage,
                                    !.autoConnectEnabled = FALSE])
    /\ UNCHANGED <<fetchVars, cacheVars, poolVars, foldVars>>

\* The wallet announces the accounts it exposes now.
AccountsChanged(accounts) ==
    /\ page.ethereum
    /\ accounts # page.provAccounts
    /\ CanAct
    /\ page' = IF Len(accounts) = 0
               THEN Effect([Acted EXCEPT !.provAccounts = accounts,
                                         !.walletAddress = NullAddress,
                                         !.yourTotalBuys = 0,
                                         !.remainingBuysToday = None,
                                         !.claimableBuys = None,
                                         !.claimableTokens = None,
                                         !.isPohVerified = None])
               ELSE Effect(CheckPohStatus(LoadContractData(
                       [Acted EXCEPT !.provAccounts = accounts,
                                     !.walletAddress = accounts[1]],
                       accounts[1], "none"), accounts[1], "none"))
    /\ UNCHANGED <<fetchVars, cacheVars, poolVars, foldVars>>

\* The wallet announces the chain it is on now.
ChainChanged(cid) ==
    /\ page.ethereum
    /\ cid # page.provChain
    /\ CanAct
    /\ LET p == [Acted EXCEPT !.provChain = cid, !.chainId = cid]
       IN page' = IF page.walletAddress # NullAddress
                  THEN CheckPohStatus(LoadContractData(p, page.walletAddress, "none"),
                                      page.walletAddress, "none")
                  ELSE p
    /\ UNCHANGED <<fetchVars, cacheVars, poolVars, foldVars>>

\* eth_accounts, asked by the effect, is answered.
EthAccountsOk ==
    /\ page.accountsReqs > 0
    /\ LET p == [page EXCEPT !.accountsReqs = @ - 1]
           acc == page.provAccounts[1]
       IN page' = IF Len(page.provAccounts) > 0
                  THEN Effect(CheckPohStatus(LoadContractData(
                          [p EXCEPT !.walletAddress = acc], acc, "none"), acc, "none"))
                  ELSE p
    /\ UNCHANGED <<fetchVars, cacheVars, poolVars, foldVars>>

\* eth_accounts, asked by the effect, is rejected: .catch(console.error).
EthAccountsFails ==
    /\ page.accountsReqs > 0
    /\ CanFail
    /\ page' = [Failed EXCEPT !.accountsReqs = @ - 1]
    /\ UNCHANGED <<fetchVars, cacheVars, poolVars, foldVars>>

\* eth_chainId, asked by the effect, is answered.
EthChainIdOk ==
    /\ page.chainReqs > 0
    /\ page' = [page EXCEPT !.chainReqs = @ - 1, !.chainId = page.provChain]
    /\ UNCHANGED <<fetchVars, cacheVars, poolVars, foldVars>>

\* eth_chainId, asked by the effect, is rejected: .catch(console.error).
EthChainIdFails ==
    /\ page.chainReqs > 0
    /\ CanFail
    /\ page' = [Failed EXCEPT !.chainReqs = @ - 1]
    /\ UNCHANGED <<fetchVars, cacheVars, poolVars, foldVars>>

TARGET_CHAIN_ID_HEX == ChainIdText(TRUE, <<14, 7, 0, 8>>)

\* The codes a rejected wallet request carries: the chain is unknown to the
\* wallet, the user has rejected the request, or something else.
UNRECOGNIZED_CHAIN == 4902
USER_REJECTED == 4001
INTERNAL_ERROR == -32603

\* switchToTargetNetwork, called by handlePrimaryAction when the wallet is
\* connected on another network (the buy button) and by the Switch Network
\* button, which is shown on the same condition and is never disabled.
SwitchToTargetNetwork ==
    /\ page.walletAddress # NullAddress
    /\ ~IsOnTargetNetwork(page.chainId)
    /\ CanAct
    /\ page' = IF page.ethereum
               THEN [Acted EXCEPT !.errorMessage = NullMessage,
                                  !.successMessage = NullMessage,
                                  !.switch[page.events + 1] =
                                      [NoSwitch EXCEPT !.pc = "switch",
                                                       !.wallet = page.walletAddress]]
               ELSE [Acted EXCEPT !.errorMessage = "MetaMask not found."]
    /\ UNCHANGED <<fetchVars, cacheVars, poolVars, foldVars>>

\* wallet_switchEthereumChain is answered: the wallet is on the target chain.
SwitchChainOk(i) ==
    /\ page.switch[i].pc = "switch"
    /\ page' = [page EXCEPT !.provChain = TARGET_CHAIN_ID_HEX,
                            !.switch[i].pc = "chainId"]
    /\ UNCHANGED <<fetchVars, cacheVars, poolVars, foldVars>>

\* eth_chainId of switchToTargetNetwork is answered.
SwitchChainIdOk(i) ==
    LET call == page.switch[i]
        p == [page EXCEPT !.chainId = page.provChain]
    IN /\ call.pc = "chainId"
       /\ page' = IF call.wallet # NullAddress
                  THEN CheckPohStatus(LoadContractData(
                          [p EXCEPT !.switch[i].pc = "reload"],
                          call.wallet, SwitchOwner(i)), call.wallet, SwitchOwner(i))
                  ELSE [p EXCEPT !.switch[i] = NoSwitch,
                                 !.successMessage =
                                     IF call.added THEN ADDED_AND_SELECTED ELSE SWITCHED]
       /\ UNCHANGED <<fetchVars, cacheVars, poolVars, foldVars>>

\* A wallet request of switchToTargetNetwork is rejected with the given
\* code.  The outer catch starts over by wallet_addEthereumChain on 4902;
\* the inner catch, around that second attempt, reports whatever fails.
SwitchFails(i, code) ==
    LET call == page.switch[i]
    IN /\ call.pc \in {"switch", "chainId", "add"}
       /\ page' =
            IF call.added
            THEN [page EXCEPT !.switch[i] = NoSwitch,
                              !.errorMessage =
                                  "Failed to add Linea network. Please add it manually."]
            ELSE IF code = UNRECOGNIZED_CHAIN
            THEN [page EXCEPT !.switch[i].pc = "add", !.switch[i].added = TRUE]
            ELSE IF code = USER_REJECTED
            THEN [page EXCEPT !.switch[i] = NoSwitch,
                              !.errorMessage =
                                  "Network switch was rejected in your wallet."]
            ELSE [page EXCEPT !.switch[i] = NoSwitch,
                              !.errorMessage = "Failed to switch network in MetaMask."]
       /\ UNCHANGED <<fetchVars, cacheVars, poolVars, foldVars>>

\* wallet_addEthereumChain is answered; wallet_switchEthereumChain is asked
\* again.
SwitchAddOk(i) ==
    /\ page.switch[i].pc = "add"
    /\ page' = [page EXCEPT !.switch[i].pc = "switch"]
    /\ UNCHANGED <<fetchVars, cacheVars, poolVars, foldVars>>

\* The Cancel button of the confirm modal.
CancelConfirmModal ==
    /\ page.showConfirmModal
    /\ ~page.isBuying
    /\ page' = [page EXCEPT !.showConfirmModal = FALSE]
    /\ UNCHANGED <<fetchVars, cacheVars, poolVars, foldVars>>

\* handlePrimaryAction with a wallet connected on the target network whose
\* PoH check has not answered false.
OpenConfirmModal ==
    /\ CanClick
    /\ ~IsBuyDisabled
    /\ ~page.showConfirmModal
    /\ page.walletAddress # NullAddress
    /\ IsOnTargetNetwork(page.chainId)
    /\ page.isPohVerified # Some(FALSE)
    /\ page' = [Clicked EXCEPT !.showConfirmModal = TRUE]
    /\ UNCHANGED <<fetchVars, cacheVars, poolVars, foldVars>>

\* An error as the catch clause of executeBuyTx reads it: its code and the
\* fragments its lower-cased message includes.
BuyError(code, includes) == [code |-> code, includes |-> includes]
SIGNER_HTTP == BuyError("", {"poh", "signer http"})
INVALID_FORMAT == BuyError("", {"poh", "invalid poh signature format"})
FAILED_TO_FETCH == BuyError("", {"failed to fetch"})
ACTION_REJECTED == BuyError("ACTION_REJECTED", {"user rejected"})
\* The rejections of the fetch of the signature and of what follows it up
\* to contract.buy; those of contract.buy (the user's, and the revert ethers
\* finds when it estimates the gas); and the reverts tx.wait reports.
SignatureErrors == {SIGNER_HTTP, INVALID_FORMAT, FAILED_TO_FETCH}
SendErrors ==
    { ACTION_REJECTED,
      BuyError("UNPREDICTABLE_GAS_LIMIT", {"dailylimitreached"}),
      BuyError("UNPREDICTABLE_GAS_LIMIT", {"notpohverified"}) }
Reverts ==
    { BuyError("CALL_EXCEPTION", {"notpohverified"}),
      BuyError("CALL_EXCEPTION", {"dailylimitreached"}),
      BuyError("CALL_EXCEPTION", {}) }

BuyErrorMessage(err) ==
    IF err.code = "ACTION_REJECTED" \/ "user rejected" \in err.includes
    THEN "Transaction rejected in wallet."
    ELSE IF "notpohverified" \in err.includes
    THEN "This wallet is not PoH verified."
    ELSE IF "nonzeroethnotallowed" \in err.includes
    THEN "This contract is gas-only; do not send ETH with the tx."
    ELSE IF "dailylimitreached" \in err.includes
    THEN "Daily buy limit reached. Try again in the next 24h."
    ELSE IF "poh" \in err.includes /\ "verify" \in err.includes
    THEN "PoH verification failed. Make sure you completed PoH with this wallet."
    ELSE IF "signer http" \in err.includes
    THEN "Could not fetch PoH signature from Linea. Please try again in a moment."
    ELSE IF "invalid poh signature format" \in err.includes
    THEN "Received invalid PoH signature format. Please try again."
    ELSE "Buy transaction failed. Check console for details."

\* executeBuyTx returns before it has awaited anything.
Refuse(p, message) == [p EXCEPT !.errorMessage = message, !.isBuying = FALSE]

ExecuteBuyTx ==
    /\ page.showConfirmModal
    /\ ~page.isBuying
    /\ page.events < MaxEvents
    /\ LET p == [page EXCEPT !.events = @ + 1,
                             !.buyCalls = @ + 1,
                             !.successMessage = NullMessage]
       IN page' =
            IF ~page.ethereum
            THEN Refuse(p, "MetaMask not found.")
            ELSE IF page.walletAddress = NullAddress
            THEN Refuse(p, "Connect your wallet first.")
            ELSE IF ~IsOnTargetNetwork(page.chainId)
            THEN Refuse(p, "Please switch your wallet to Linea.")
            ELSE IF page.isPohVerified = Some(FALSE)
            THEN Refuse(p, "This wallet is not Proof-of-Humanity verified via Linea.")
            ELSE IF page.isPohVerified = None
            THEN Refuse(p, "Still checking your PoH status. Try again in a moment.")
            ELSE [p EXCEPT !.errorMessage = NullMessage,
                           !.isBuying = TRUE,
                           !.buy = [pc |-> "signature", wallet |-> page.walletAddress,
                                    load |-> FALSE, board |-> FALSE]]
    /\ UNCHANGED <<fetchVars, cacheVars, poolVars, foldVars>>

\* The catch and finally clauses of executeBuyTx.
BuyCatch(err) ==
    [page EXCEPT !.errorMessage = BuyErrorMessage(err),
                 !.isBuying = FALSE,
                 !.buy = NoBuy]

\* The signer API answers with a signature.
BuySignatureOk ==
    /\ page.buy.pc = "signature"
    /\ page' = [page EXCEPT !.buy.pc = "send"]
    /\ UNCHANGED <<fetchVars, cacheVars, poolVars, foldVars>>

\* The fetch of the signature is rejected, or answers with an error status
\* or with a text that is not a signature; or contract.buy is rejected, by
\* the user or because the transaction would revert.
BuyFails(err) ==
    /\ \/ page.buy.pc = "signature" /\ err \in SignatureErrors
       \/ page.buy.pc = "send" /\ err \in SendErrors
    /\ page' = BuyCatch(err)
    /\ UNCHANGED <<fetchVars, cacheVars, poolVars, foldVars>>

\* contract.buy: the wallet signs with the account it has selected.
BuySendOk ==
    /\ page.buy.pc = "send"
    /\ page.provAccounts # <<>>
    /\ page' = [page EXCEPT !.sentTxs = Append(@, [from |-> page.provAccounts[1],
                                                   signature |-> page.buy.wallet]),
                            !.buy.pc = "wait"]
    /\ UNCHANGED <<fetchVars, cacheVars, poolVars, foldVars>>

\* The chain includes the transaction and the contract records the buy;
\* nothing is delivered to the page, where tx.wait is still out.
BuyIncluded ==
    LET tx == page.sentTxs[Len(page.sentTxs)]
    IN /\ page.buy.pc = "wait"
       /\ tx.from = tx.signature
       /\ PohText(tx.from) = "true"
       /\ page.bought[tx.from] < SampleContract.maxBuysPerDay
       /\ \E loads \in OvertakenLoads(page.loads) :
             page' = [page EXCEPT !.bought = Inc(@, tx.from),
                                  !.loads = loads,
                                  !.buy.pc = "included"]
       /\ UNCHANGED <<fetchVars, cacheVars, poolVars, foldVars>>

\* tx.wait is answered with the receipt of the buy.
BuyMined ==
    /\ page.buy.pc = "included"
    /\ page' = LoadContractData(
                  [page EXCEPT !.successMessage = "Buy recorded successfully!",
                               !.showConfirmModal = FALSE,
                               !.buy.pc = "reload"],
                  page.buy.wallet, "buy")
    /\ UNCHANGED <<fetchVars, cacheVars, poolVars, foldVars>>

\* tx.wait: the transaction reverts.
BuyReverts(err) ==
    /\ page.buy.pc = "wait"
    /\ err \in Reverts
    /\ page' = BuyCatch(err)
    /\ UNCHANGED <<fetchVars, cacheVars, poolVars, foldVars>>

\* ---- handleClaimAll
RECURSIVE DigitsText(_)
DigitsText(digits) ==
    IF digits = <<>> THEN "" ELSE ToString(Head(digits)) \o DigitsText(Tail(digits))

\* `Claimed ${expectedBuys} buys for ~${formattedTokens} TBAG.`, or
\* "Claim successful!" when expectedTokens or tbagPerBuy is missing.
ClaimedMessage(call) ==
    IF call.tokens # None /\ call.priced
    THEN LET f == FormatUnits(call.tokens[1], TBAG_DECIMALS)
         IN "Claimed " \o ToString(call.buys) \o " buys for ~"
              \o DigitsText(f.whole) \o "." \o DigitsText(f.fraction) \o " TBAG."
    ELSE "Claim successful!"

ClaimErrors ==
    { ACTION_REJECTED,
      BuyError("UNPREDICTABLE_GAS_LIMIT", {"nobuystoclaim"}),
      BuyError("CALL_EXCEPTION", {}) }

ClaimErrorMessage(err) ==
    IF err.code = "ACTION_REJECTED" \/ "user rejected" \in err.includes
    THEN "Claim transaction rejected in wallet."
    ELSE IF "nobuystoclaim" \in err.includes
    THEN "No buys to claim."
    ELSE IF "tbagperbuynotset" \in err.includes
    THEN "tbagPerBuy is not configured on the contract."
    ELSE IF "insufficientrewardbalance" \in err.includes
            \/ "insufficient balance" \in err.includes
    THEN "Contract does not have enough TBAG to pay this claim."
    ELSE IF "transferfailed" \in err.includes
    THEN "TBAG transfer failed from contract. Check token balance."
    ELSE "Claim transaction failed. Check console for details."

\* handleClaimAll up to its first await: the claim button, which is disabled
\* while a claim or a load is in progress.
HandleClaimAll ==
    /\ ~IsClaimDisabled
    /\ CanAct
    /\ LET p == [Acted EXCEPT !.errorMessage = NullMessage,
                              !.successMessage = NullMessage,
                              !.isClaiming = FALSE]
           refused(message) == [p EXCEPT !.errorMessage = message]
       IN page' =
            IF ~page.ethereum
            THEN refused("MetaMask not found.")
            ELSE IF page.walletAddress = NullAddress
            THEN refused("Connect your wallet first.")
            ELSE IF ~IsOnTargetNetwork(page.chainId)
            THEN refused("Please switch your wallet to Linea.")
            ELSE IF page.claimableBuys \in {None, Some(0)}
            THEN refused("No buys to claim yet.")
            ELSE [p EXCEPT !.isClaiming = TRUE,
                           !.claim = [pc |-> "static",
                                      wallet |-> page.walletAddress,
                                      buys |-> page.claimableBuys[1],
                                      tokens |-> page.claimableTokens,
                                      priced |-> page.tbagPerBuy # None,
                                      from |-> NullAddress]]
    /\ UNCHANGED <<fetchVars, cacheVars, poolVars, foldVars>>

\* callStatic.claimAll answers with what the signing account would be paid.
ClaimStaticOk ==
    /\ page.claim.pc = "static"
    /\ page.provAccounts # <<>>
    /\ ContractUser(page.provAccounts[1]).claimableBuys > 0
    /\ page' = [page EXCEPT
                  !.claim.buys = ContractUser(page.provAccounts[1]).claimableBuys,
                  !.claim.tokens = Some(ContractUser(page.provAccounts[1]).claimableTokens),
                  !.claim.pc = "send"]
    /\ UNCHANGED <<fetchVars, cacheVars, poolVars, foldVars>>

\* callStatic.claimAll is rejected: the empty catch.
ClaimStaticFails ==
    /\ page.claim.pc = "static"
    /\ page' = [page EXCEPT !.claim.pc = "send"]
    /\ UNCHANGED <<fetchVars, cacheVars, poolVars, foldVars>>

\* contract.claimAll: the wallet signs with the account it has selected.
ClaimSendOk ==
    /\ page.claim.pc = "send"
    /\ page.provAccounts # <<>>
    /\ page' = [page EXCEPT !.claim.from = page.provAccounts[1],
                            !.claim.pc = "wait"]
    /\ UNCHANGED <<fetchVars, cacheVars, poolVars, foldVars>>

\* contract.claimAll is rejected or tx.wait reports a revert: the catch and
\* finally clauses of handleClaimAll.
ClaimFails(err) ==
    /\ page.claim.pc \in {"send", "wait"}
    /\ page.claim.pc = "wait" => err.code = "CALL_EXCEPTION"
    /\ page' = [page EXCEPT !.errorMessage = ClaimErrorMessage(err),
                            !.isClaiming = FALSE,
                            !.claim = NoClaim]
    /\ UNCHANGED <<fetchVars, cacheVars, poolVars, foldVars>>

\* The chain includes the transaction and the contract pays the buys of
\* the signing account; nothing is delivered to the page, where tx.wait is
\* still out.
ClaimIncluded ==
    LET from == page.claim.from
    IN /\ page.claim.pc = "wait"
       /\ ContractUser(from).claimableBuys > 0
       /\ \E loads \in OvertakenLoads(page.loads) :
             page' = [page EXCEPT !.claimed[from] = ContractUser(from).totalBuys,
                                  !.loads = loads,
                                  !.claim.pc = "included"]
       /\ UNCHANGED <<fetchVars, cacheVars, poolVars, foldVars>>

\* tx.wait is answered with the receipt of the claim.
ClaimMined ==
    /\ page.claim.pc = "included"
    /\ page' = LoadContractData(
                  [page EXCEPT !.successMessage = ClaimedMessage(page.claim),
                               !.claim.pc = "reload"],
                  page.claim.wallet, "claim")
    /\ UNCHANGED <<fetchVars, cacheVars, poolVars, foldVars>>

\* The page once the effects of its first render have run: the effect has
\* asked the wallet, if there is one, for its accounts and its chain.
Mounted(p) ==
    [p EXCEPT !.accountsReqs = IF p.ethereum THEN 1 ELSE 0,
              !.chainReqs = IF p.ethereum THEN 1 ELSE 0]

PageStarts ==
    {Mounted(PageFresh(FALSE, <<>>, NullChainId))}
    \cup {Mounted(PageFresh(TRUE, accounts, chain)) :
            accounts \in {<<>>, <<"0xAa">>}, chain \in SampleChainIds}

PageStart ==
    /\ FetchIdle /\ CacheIdle /\ PoolIdle /\ FoldIdle
    /\ chainLogs = [b \in Blocks |-> 0]

\* A wallet that exposes 0xAa on Linea, with a user and a wallet that may
\* act while requests are in flight.
HastyInit ==
    /\ PageStart
    /\ page = [Mounted(PageFresh(TRUE, <<"0xAa">>, ChainIdText(TRUE, <<14, 7, 0, 8>>)))
                 EXCEPT !.hasty = MaxHasty]

\* A user and a wallet that wait for the page to settle before they connect,
\* disconnect or switch.
PatientInit ==
    /\ PageStart
    /\ page \in PageStarts

PageNext ==
    \/ ConnectWallet
    \/ \E a \in Accounts : ConnectAccountsOk(a)
    \/ \E a \in Accounts \cup {NullAddress} : ConnectFails(a)
    \/ \E a \in Accounts : ConnectChainIdOk(a)
    \/ DisconnectWallet
    \/ SwitchToTargetNetwork
    \/ \E i \in SwitchIds : SwitchChainOk(i)
    \/ \E i \in SwitchIds : SwitchChainIdOk(i)
    \/ \E i \in SwitchIds, code \in {UNRECOGNIZED_CHAIN, USER_REJECTED, INTERNAL_ERROR} :
          SwitchFails(i, code)
    \/ \E i \in SwitchIds : SwitchAddOk(i)
    \/ \E accounts \in {<<>>} \cup {<<a>> : a \in Accounts} : AccountsChanged(accounts)
    \/ \E cid \in SampleChainIds : ChainChanged(cid)
    \/ EthAccountsOk
    \/ EthAccountsFails
    \/ EthChainIdOk
    \/ EthChainIdFails
    \/ \E a \in Accounts, s \in Stages, o \in Owners : LoadReadOk(a, s, o)
    \/ \E a \in Accounts, o \in Owners : LoadGlobalOk(a, o)
    \/ \E a \in Accounts, s \in Stages, o \in Owners : LoadFails(a, s, o)
    \/ \E a \in Accounts, o \in Owners : LoadUserOk(a, o)
    \/ \E a \in Accounts, o \in PohOwners : PohOk(a, o)
    \/ \E a \in Accounts, o \in PohOwners : PohFails(a, o)
    \/ LeaderboardReturns
    \/ OpenConfirmModal
    \/ CancelConfirmModal
    \/ ExecuteBuyTx
    \/ BuySignatureOk
    \/ \E err \in SignatureErrors \cup SendErrors : BuyFails(err)
    \/ BuySendOk
    \/ BuyIncluded
    \/ BuyMined
    \/ \E err \in Reverts : BuyReverts(err)
    \/ HandleClaimAll
    \/ ClaimStaticOk
    \/ ClaimStaticFails
    \/ ClaimSendOk
    \/ \E err \in ClaimErrors : ClaimFails(err)
    \/ ClaimIncluded
    \/ ClaimMined

SpecPagePatient == PatientInit /\ [][PageNext]_vars

\* The steps of a page whose requests are all answered, whose wallet
\* announces changes, and whose user clicks nothing but the claim button.
HastyNext ==
    \/ \E accounts \in {<<>>} \cup {<<a>> : a \in Accounts} : AccountsChanged(accounts)
    \/ \E cid \in SampleChainIds : ChainChanged(cid)
    \/ EthAccountsOk
    \/ EthChainIdOk
    \/ \E a \in Accounts, s \in Stages, o \in {"none", "claim"} : LoadReadOk(a, s, o)
    \/ \E a \in Accounts, o \in {"none", "claim"} : LoadGlobalOk(a, o)
    \/ \E a \in Accounts, o \in {"none", "claim"} : LoadUserOk(a, o)
    \/ \E a \in Accounts, o \in PohOwners : PohOk(a, o)
    \/ HandleClaimAll
    \/ ClaimStaticOk
    \/ ClaimSendOk
    \/ ClaimIncluded
    \/ ClaimMined

SpecPageHasty == HastyInit /\ [][HastyNext]_vars

\* ------------------------------------------------- claims on the page
\* The sample chain ids that denote 59144: "0xe708" and "59144".
TargetChainTexts ==
    { ChainIdText(TRUE, <<14, 7, 0, 8>>), ChainIdText(FALSE, <<5, 9, 1, 4, 4>>) }

\* A wallet is connected, it is on the target network and the PoH check has
\* answered true.
BuyAllowed ==
    /\ page.walletAddress # NullAddress
    /\ page.chainId \in TargetChainTexts
    /\ page.isPohVerified = Some(TRUE)

\* C36: executeBuyTx goes on to submit a buy transaction only when, at the
\* time of the call, a wallet is connected, the wallet is on chain 59144 and
\* isPohVerified is true; a call made in any other state sends no
\* transaction, sets an error message and leaves isBuying false; and a
\* transaction is only ever submitted by a call that has passed that test.
C36_BuyGating ==
    /\ [][page'.buyCalls # page.buyCalls =>
             /\ page'.buyCalls = page.buyCalls + 1
             /\ ~page.isBuying
             /\ page'.sentTxs = page.sentTxs
             /\ IF BuyAllowed
                THEN /\ page'.isBuying
                     /\ page'.buy.pc = "signature"
                     /\ page'.buy.wallet = page.walletAddress
                ELSE /\ page'.errorMessage # NullMessage
                     /\ ~page'.isBuying
                     /\ page'.buy = NoBuy]_vars
    /\ [][(page.buy.pc = "idle" /\ page'.buy.pc # "idle") =>
             (BuyAllowed /\ page'.buyCalls # page.buyCalls)]_vars
    /\ [][page'.sentTxs # page.sentTxs =>
             (/\ page.buy.pc = "send"
              /\ page.isBuying
              /\ page'.sentTxs = Append(page.sentTxs, page'.sentTxs[Len(page'.sentTxs)])
              /\ page'.sentTxs[Len(page'.sentTxs)].signature = page.buy.wallet)]_vars

\* C36 witness: the confirm button was clicked with a wallet connected on
\* another network; the call was refused and nothing was sent.
C36_Witness ==
    /\ page.buyCalls > 0
    /\ page.showConfirmModal
    /\ page.walletAddress # NullAddress
    /\ page.chainId \notin TargetChainTexts
    /\ page.errorMessage = "Please switch your wallet to Linea."
    /\ ~page.isBuying
    /\ page.sentTxs = <<>>

\* C37: once the wallet has been disconnected (walletAddress null and
\* auto-connect off), walletAddress becomes non-null again only in the step
\* of connectWallet that receives the accounts the user has approved.
C37_DisconnectSticky ==
    [][(/\ ~page.autoConnectEnabled
        /\ page.walletAddress = NullAddress
        /\ page'.walletAddress # NullAddress)
          => (/\ page.connect.accounts > 0
              /\ page'.connect.accounts = page.connect.accounts - 1
              /\ page'.connect.chainId[page'.walletAddress] =
                     page.connect.chainId[page'.walletAddress] + 1)]_vars

\* The per-user values on display were read for account w.
ShowsDataOf(w) ==
    /\ page.yourTotalBuys - SampleBuys[w] \in 0..SampleContract.maxBuysPerDay
    /\ page.claimableBuys # None
    /\ page.claimableTokens # None

\* C38: when nothing the page has asked for is outstanding and a wallet is
\* connected, the per-user values on display were not read for another
\* account, and isPohVerified, when it is set, is the PoH answer for the
\* connected account.
C38_NoStaleAccountData ==
    (Quiet /\ page.walletAddress # NullAddress) =>
        /\ \A w \in Accounts \ {page.walletAddress} : ~ShowsDataOf(w)
        /\ page.isPohVerified \in {None, Some(PohText(page.walletAddress) = "true")}

============================================================================
